---- MODULE Spec2Model ----
(***************************************************************************)
(* A model of the SheetApps template's data path:                          *)
(*   hooks (useSheetData, useQuickConnectionStatus, useAddRow,             *)
(*          useOptimisticUpdate)                                           *)
(*     -> ApiManager (cache, pendingRequests, rate limit)                  *)
(*     -> SheetApi (standardized responses)                                *)
(*     -> SheetClient (30 s cache, makeRequest over fetch)                 *)
(*     -> the external HTTP API (the environment).                         *)
(*                                                                         *)
(* Time is the value of Date.now() in milliseconds.  Synchronous code and  *)
(* the microtasks it queues take no time; a continuation that waits for a  *)
(* microtask is a position ("resume") that runs before any timer, HTTP     *)
(* response or passage of time, but after the other synchronous calls of   *)
(* the same tick.                                                          *)
(***************************************************************************)
EXTENDS Integers, Sequences, FiniteSets, TLC

\* ------------------------------------------------------------------ bounds
NCalls == 2          \* concurrent callers of the ApiManager
MaxCalls == 3        \* calls the hooks make in one behaviour
MaxTicks == 2        \* times the clock advances in one behaviour
MaxWrites == 1       \* rows added in one behaviour
NUpdates == 2        \* optimistic updates made in one behaviour
MaxChanges == 2      \* changes in one bulkUpdate
MaxOps == 2          \* SheetApi operations run in one behaviour
NOps == 2            \* SheetApi operations in progress at once
MaxRows == 2         \* data rows of a sheet
NCols == 2           \* cells of a sheet row

\* ------------------------------------------------------- program constants
MIN_REQUEST_INTERVAL == 1000
DEFAULT_TTL == 30000
QUICK_TTL == 10000
CACHE_TTL == 30000
CLEANUP_INTERVAL == 60000
PENDING_MAX_AGE == 30000

Slots == 1..NCalls
Keys == {"getAllData", "quickTest"}
Null == [null |-> TRUE]

\* A string is a sequence of non-empty fragments; << >> is '' (and undefined,
\* which the code only ever tests for truthiness).
EmptyStr == << >>
Or(a, b) == IF a = EmptyStr THEN b ELSE a      \* JavaScript's  a || b  on strings

\* --------------------------------------------------------------- strings
\* Where the characters of a string matter, it is the sequence of them.
UpperChars == <<"A", "B", "C", "D", "E", "F", "G", "H", "I", "J", "K", "L", "M", "N", "O", "P", "Q", "R", "S", "T", "U", "V", "W", "X", "Y", "Z">>
LowerChars == <<"a", "b", "c", "d", "e", "f", "g", "h", "i", "j", "k", "l", "m", "n", "o", "p", "q", "r", "s", "t", "u", "v", "w", "x", "y", "z">>
toLowerChar(c) ==
    IF \E i \in DOMAIN UpperChars : UpperChars[i] = c
    THEN LowerChars[CHOOSE i \in DOMAIN UpperChars : UpperChars[i] = c]
    ELSE c
toLowerCase(s) == [i \in DOMAIN s |-> toLowerChar(s[i])]

\* String.prototype.trim, on strings whose white space is the space.
RECURSIVE trimStart(_)
trimStart(s) == IF s # << >> /\ Head(s) = " " THEN trimStart(Tail(s)) ELSE s
RECURSIVE trimEnd(_)
trimEnd(s) == IF s # << >> /\ s[Len(s)] = " " THEN trimEnd(SubSeq(s, 1, Len(s) - 1)) ELSE s
trim(s) == trimEnd(trimStart(s))

\* String.prototype.includes / startsWith, Array.prototype.includes.
includes(s, sub) ==
    \E i \in 0..(Len(s) - Len(sub)) : SubSeq(s, i + 1, i + Len(sub)) = sub
startsWith(s, sub) == Len(sub) <= Len(s) /\ SubSeq(s, 1, Len(sub)) = sub
arrayIncludes(a, x) == \E i \in DOMAIN a : a[i] = x

\* A JavaScript value: a string, a boolean or a number; Undefined is undefined.
Str(s) == [str |-> s]
Bool(b) == [bool |-> b]
Num(n) == [num |-> n]
Undefined == [undefined |-> TRUE]

\* ------------------------------------------------------------ HTTP replies
\* What fetch + response.json() can produce for a request.
\*   fetchThrows : fetch rejects (network, CORS)
\*   badJson     : response.json() rejects; ok is response.ok (the status is
\*                 502 when it is not)
\*   notOk       : response.ok is false; the body's error may be absent
\*   body        : response.ok; the body's success, error and data.values
\*                 (makeRequest reads the error of a failure and the data of a
\*                 success only)
ServerErrors == {EmptyStr, <<"Sheet not found">>}
ValueShapes == {"none", "empty", "headerOnly", "rows"}
HttpReplies ==
    {[type |-> "fetchThrows"]}
    \cup {[type |-> "badJson", ok |-> ok] : ok \in BOOLEAN}
    \cup {[type |-> "notOk", error |-> e] : e \in ServerErrors}
    \cup {[type |-> "body", success |-> FALSE, error |-> e, values |-> "none"] :
            e \in ServerErrors}
    \cup {[type |-> "body", success |-> TRUE, error |-> EmptyStr, values |-> v] :
            v \in ValueShapes}

\* ------------------------------------------------------------- SheetClient
Throw(m) == [threw |-> TRUE, message |-> m]
Return(v) == [threw |-> FALSE, value |-> v]

\* SheetClient.makeRequest: the outcome for a reply.  `values` stands for
\* result.data (present only in a body with data).
makeRequest(reply) ==
    CASE reply.type = "fetchThrows" ->
            Throw(<<"API request failed: ", "Failed to fetch">>)
      [] reply.type = "badJson" ->
            Throw(<<"API request failed: ", "Unexpected token">>)
      [] reply.type = "notOk" ->
            Throw(<<"API request failed: ">> \o Or(reply.error, <<"HTTP 500: Internal Server Error">>))
      [] reply.type = "body" ->
            IF reply.success
            THEN Return([success |-> TRUE, values |-> reply.values, error |-> EmptyStr])
            ELSE Return([success |-> FALSE, values |-> "none", error |-> reply.error])

\* Rows read by GET number `req`, which the server answered from version `ver`
\* of the sheet and whose response arrived at time `at`; `length` is the number of data rows (0 or more).
Rows(req, ver, at, length) == [req |-> req, ver |-> ver, at |-> at, length |-> length]

\* SheetClient.transformRawDataToRows, on the shape of the values.
transformRawDataToRows(values, req, ver, at) ==
    Rows(req, ver, at, IF values = "rows" THEN 1 ELSE 0)

\* A SheetClient.getAllData that falls back to sample rows when the request fails.
clientGetAllDataResultSample(reply, req, ver, at) ==
    LET r == makeRequest(reply) IN
    IF r.threw THEN Return(Rows(0, 0, 0, 1))
    ELSE IF r.value.values \in {"none", "empty"}
         THEN Throw(<<"No data found in the specified sheet. Please check your sheet ID and ensure the sheet contains data.">>)
         ELSE Return(transformRawDataToRows(r.value.values, req, ver, at))

\* SheetClient.getAllData after makeRequest has settled: the rows it returns
\* (and caches), or the error it throws.
clientGetAllDataResult(reply, req, ver, at) ==
    LET r == makeRequest(reply) IN
    IF r.threw THEN r
    ELSE IF r.value.values \in {"none", "empty"}
         THEN Throw(<<"No data found in the specified sheet. Please check your sheet ID and ensure the sheet contains data.">>)
         ELSE Return(transformRawDataToRows(r.value.values, req, ver, at))

\* ---------------------------------------------------------------- SheetApi
ApiResponse(success, data, error, timestamp) ==
    [success |-> success, data |-> data, error |-> error, timestamp |-> timestamp]

\* A SheetApi.getAllData that answers a failed read with sample rows.
sheetApiGetAllDataSample(r, t) ==
    IF r.threw
    THEN ApiResponse(TRUE, Rows(0, 0, 0, 1), EmptyStr, t)
    ELSE IF r.value.length = 0
         THEN ApiResponse(FALSE, Null, <<"No data found in the sheet. Please ensure your Google Sheet contains data and check your configuration.">>, t)
         ELSE ApiResponse(TRUE, r.value, EmptyStr, t)

\* SheetApi.getAllData around the settled client.getAllData.
sheetApiGetAllData(r, t) ==
    IF r.threw
    THEN ApiResponse(FALSE, Null, <<"Google Sheets API Error: ">> \o r.message, t)
    ELSE IF r.value.length = 0
         THEN ApiResponse(FALSE, Null, <<"No data found in the sheet. Please ensure your Google Sheet contains data and check your configuration.">>, t)
         ELSE ApiResponse(TRUE, r.value, EmptyStr, t)

\* SheetClient.addRow around makeRequest: a thrown error becomes a failure response.
clientAddRow(r) ==
    IF r.threw
    THEN [success |-> FALSE, error |-> r.message]
    ELSE [success |-> r.value.success, error |-> r.value.error]

\* SheetApi.addRow around the settled client.addRow (the row passed validation).
sheetApiAddRow(result, t) ==
    IF result.success
    THEN ApiResponse(TRUE, TRUE, EmptyStr, t)
    ELSE ApiResponse(FALSE, Null, Or(result.error, <<"Failed to add row">>), t)

\* SheetClient.getAllData finds rows cached for less than CACHE_TTL.
cacheFresh(cached, t) == cached # Null /\ t - cached.timestamp < CACHE_TTL

\* SheetClient.getRowById around getAllData: the row, or null.  found: some row
\* has the identifier.
getRowById(r, found) ==
    IF r.threw THEN r
    ELSE Return(IF found /\ r.value.length > 0 THEN [row |-> 1, of |-> r.value.req] ELSE Null)

\* SheetClient.search around getAllData: filterData keeps `matches` of the rows.
clientSearch(r, matches) ==
    IF r.threw THEN r
    ELSE Return([r.value EXCEPT !.length = IF matches < @ THEN matches ELSE @])

\* SheetApi.getRow around the settled client.getRowById.
sheetApiGetRow(r, t) ==
    IF r.threw
    THEN ApiResponse(FALSE, Null, r.message, t)
    ELSE ApiResponse(TRUE, r.value, EmptyStr, t)

\* SheetApi.search around the settled client.search.
sheetApiSearch(r, t) ==
    IF r.threw
    THEN ApiResponse(FALSE, Null, r.message, t)
    ELSE ApiResponse(TRUE, r.value, EmptyStr, t)

\* SheetClient.addRow as a whole.  badDate: formatValue throws on a date cell
\* (new Date(value).toISOString() of an invalid date), before any request.
clientAddRowCall(badDate, reply) ==
    IF badDate
    THEN [result |-> [success |-> FALSE, error |-> <<"Invalid time value">>], put |-> FALSE,
          returned |-> FALSE]
    ELSE LET r == makeRequest(reply) IN
         [result |-> clientAddRow(r), put |-> TRUE, returned |-> ~r.threw]

\* Array.prototype.join(', ').
RECURSIVE join(_)
join(a) ==
    IF a = << >> THEN << >>
    ELSE IF Len(a) = 1 THEN a[1]
    ELSE a[1] \o <<",", " ">> \o join(Tail(a))

\* What validateRowData finds in the row of an addRow: the messages of its
\* errors (the required first field, and a field that is not of its type).
RowErrors ==
    {<< >>, <<<<"Name is required">>>>, <<<<"Joined must be a valid date">>>>,
     <<<<"Name is required">>, <<"Joined must be a valid date">>>>}

\* SheetApi.addRow as a whole: validateRowData (errors: the messages of what it
\* found), then client.addRow.
sheetApiAddRowCall(errors, result, t) ==
    IF errors # << >>
    THEN ApiResponse(FALSE, Null, <<"Validation failed: ">> \o join(errors), t)
    ELSE sheetApiAddRow(result, t)

\* The inputs of an updateField, one for each way through SheetClient.updateField
\* (what follows the first check that fails is immaterial).
\*   p.found      : findRowByIdentifier finds a row
\*   p.fieldKnown : config.headers has the field
\*   p.lock       : "none" (no oldValue), "ok" (the cell holds oldValue), "stale"
\*   p.badDate    : formatValue throws on the new value
UpdateInputs ==
    {q \in [found : BOOLEAN, fieldKnown : BOOLEAN, lock : {"none", "ok", "stale"},
            badDate : BOOLEAN] :
        /\ ~q.found => q.fieldKnown
        /\ ~(q.found /\ q.fieldKnown) => q.lock = "none"
        /\ ~(q.found /\ q.fieldKnown /\ q.lock # "stale") => ~q.badDate}

\* SheetClient.updateField between the rows of getAllData and the POST: the
\* message of the error it throws, or the empty string when the POST is sent.
updateFieldChecks(rows, p) ==
    IF ~(p.found /\ rows.length > 0)
    THEN <<"Row with identifier ", "id", " not found">>
    ELSE IF ~p.fieldKnown
    THEN <<"Field ", "field", " not found in headers">>
    ELSE IF p.lock = "stale"
    THEN <<"Optimistic lock failed: value was changed by another user">>
    ELSE IF p.badDate
    THEN <<"Invalid time value">>
    ELSE EmptyStr

\* SheetClient.updateField around the makeRequest of its POST: a thrown error
\* becomes a failure response.
clientUpdateFieldPosted(w) ==
    IF w.threw
    THEN [success |-> FALSE, error |-> w.message]
    ELSE [success |-> w.value.success, error |-> w.value.error]

\* A SheetApi.updateField that passes the client's error on as it is.
sheetApiUpdateFieldBare(result, t) ==
    IF result.success
    THEN ApiResponse(TRUE, TRUE, EmptyStr, t)
    ELSE ApiResponse(FALSE, Null, result.error, t)

\* SheetApi.updateField around the settled client.updateField.
sheetApiUpdateField(result, t) ==
    IF result.success
    THEN ApiResponse(TRUE, TRUE, EmptyStr, t)
    ELSE ApiResponse(FALSE, Null, Or(result.error, <<"Failed to update field">>), t)

\* A SheetApi.bulkUpdate that fails as a whole when one of the updates failed.
sheetApiBulkUpdateAllOrNothing(results, t) ==
    IF \E i \in DOMAIN results : ~results[i].success
    THEN ApiResponse(FALSE, Null, <<"Bulk update failed">>, t)
    ELSE ApiResponse(TRUE, [successful |-> Len(results), failed |-> 0, errors |-> << >>],
                     EmptyStr, t)

\* SheetApi.bulkUpdate around the settled client.bulkUpdate (the results in the
\* order of the changes).
sheetApiBulkUpdate(results, t) ==
    LET failures == SelectSeq(results, LAMBDA r : ~r.success) IN
    ApiResponse(TRUE,
                [successful |-> Len(SelectSeq(results, LAMBDA r : r.success)),
                 failed |-> Len(failures),
                 errors |-> [i \in DOMAIN failures |-> Or(failures[i].error, <<"Unknown error">>)]],
                EmptyStr, t)

\* SheetClient.isBooleanColumn, on the lower-cased column name and value.
booleanColumnNames == <<<<"d", "o", "n", "e">>, <<"c", "o", "m", "p", "l", "e", "t", "e", "d">>, <<"f", "i", "n", "i", "s", "h", "e", "d">>, <<"a", "c", "t", "i", "v", "e">>, <<"v", "i", "s", "i", "t", "e", "d">>>>
booleanValues == <<<<"t", "r", "u", "e">>, <<"f", "a", "l", "s", "e">>, <<"y", "e", "s">>, <<"n", "o">>, <<"y">>, <<"n">>, <<"1">>, <<"0">>, <<"d", "o", "n", "e">>, <<"c", "o", "m", "p", "l", "e", "t", "e", "d">>>>
isBooleanColumn(columnName, value) ==
    \/ \E i \in DOMAIN booleanColumnNames : includes(columnName, booleanColumnNames[i])
    \/ arrayIncludes(booleanValues, value)

\* SheetClient.convertToBoolean.
truthyValues == <<<<"t", "r", "u", "e">>, <<"y", "e", "s">>, <<"y">>, <<"1">>, <<"d", "o", "n", "e">>, <<"c", "o", "m", "p", "l", "e", "t", "e", "d">>, <<"a", "c", "t", "i", "v", "e">>, <<"v", "i", "s", "i", "t", "e", "d">>>>
convertToBoolean(value) == arrayIncludes(truthyValues, value)

\* SheetClient.smartTypeConversion.
smartTypeConversion(value, columnName) ==
    IF value = << >> \/ trim(value) = << >> THEN Str(<< >>)
    ELSE LET trimmedValue == trim(value)
             lowerColumnName == toLowerCase(columnName)
             lowerValue == toLowerCase(trimmedValue)
         IN IF isBooleanColumn(lowerColumnName, lowerValue)
            THEN Bool(convertToBoolean(lowerValue))
            ELSE Str(trimmedValue)

\* Number.prototype.toString of a natural number.
DigitChars == <<"0", "1", "2", "3", "4", "5", "6", "7", "8", "9">>
RECURSIVE numberToString(_)
numberToString(n) ==
    IF n < 10 THEN <<DigitChars[n + 1]>>
    ELSE numberToString(n \div 10) \o <<DigitChars[(n % 10) + 1]>>

\* SheetClient.transformRawDataToRows on the cells: rawData is the sequence of
\* the sheet's rows (the header row first), each the sequence of its cells;
\* headers is config.headers.  A row object starts as its _id and its _rowIndex
\* and is then given the value of each effective header in turn: a later column
\* of the same name wins, and a header named _id or _rowIndex replaces that key.
\* The values of the other headers are the row's `cells`.
IdKey == <<"_", "i", "d">>
RowIndexKey == <<"_", "r", "o", "w", "I", "n", "d", "e", "x">>
rowsOfRawData(rawData, headers) ==
    IF Len(rawData) = 0 THEN << >>
    ELSE LET sheetHeaders == rawData[1]
             dataRows == Tail(rawData)
             effectiveHeaders == IF Len(headers) > 0 THEN headers ELSE sheetHeaders
             cell(row, colIndex) == IF colIndex <= Len(row) THEN row[colIndex] ELSE << >>
             lastCol(header) == CHOOSE c \in DOMAIN effectiveHeaders :
                                   /\ effectiveHeaders[c] = header
                                   /\ \A d \in DOMAIN effectiveHeaders :
                                         effectiveHeaders[d] = header => d <= c
             names == {effectiveHeaders[c] : c \in DOMAIN effectiveHeaders}
             value(row, header) == smartTypeConversion(cell(row, lastCol(header)), header)
         IN [index \in 1..Len(dataRows) |->
                LET row == dataRows[index] IN
                [_id |-> IF IdKey \in names THEN value(row, IdKey)
                         ELSE IF cell(row, 1) # << >> THEN Str(cell(row, 1))
                         ELSE Str(<<"r", "o", "w", "_">> \o numberToString(index)),
                 _rowIndex |-> IF RowIndexKey \in names THEN value(row, RowIndexKey)
                               ELSE Num(index),
                 cells |-> [header \in names \ {IdKey, RowIndexKey} |-> value(row, header)]]]

\* Array.prototype.indexOf / findIndex, 0-based; -1 when there is none.
indexOf(a, x) ==
    IF \E i \in DOMAIN a : a[i] = x
    THEN (CHOOSE i \in DOMAIN a : a[i] = x /\ \A j \in DOMAIN a : a[j] = x => i <= j) - 1
    ELSE -1

\* row[key] of a row object.
rowField(row, key) ==
    IF key = IdKey THEN row._id
    ELSE IF key = RowIndexKey THEN row._rowIndex
    ELSE IF key \in DOMAIN row.cells THEN row.cells[key]
    ELSE Undefined

\* Object.values(row).
rowValues(row) ==
    {row._id, row._rowIndex} \cup {row.cells[h] : h \in DOMAIN row.cells}

\* SheetClient.findRowByIdentifier on the rows of getAllData: the 0-based index
\* of the first row the identifier matches, or -1.
findRowByIdentifier(allData, identifier, headers) ==
    LET primary == IF Len(headers) > 0 THEN headers[1] ELSE <<"u", "n", "d", "e", "f", "i", "n", "e", "d">>
        matches(row) == \/ row._id = identifier
                        \/ rowField(row, primary) = identifier
                        \/ identifier \in rowValues(row)
    IN IF \E i \in DOMAIN allData : matches(allData[i])
       THEN (CHOOSE i \in DOMAIN allData :
                matches(allData[i]) /\ \A j \in DOMAIN allData : matches(allData[j]) => i <= j) - 1
       ELSE -1

\* SheetClient.numberToColumnLetter.
RECURSIVE numberToColumnLetter(_)
numberToColumnLetter(num) ==
    IF num < 0 THEN << >>
    ELSE numberToColumnLetter((num \div 26) - 1) \o <<UpperChars[(num % 26) + 1]>>

\* SheetClient.getA1Notation.
getA1Notation(row, col) == numberToColumnLetter(col) \o numberToString(row)

\* SheetClient.updateField up to its request's range (oldValue not given): the
\* row and column it finds and the range it would send, or the error it throws.
updateFieldRange(allData, headers, identifier, field) ==
    LET rowIndex == findRowByIdentifier(allData, identifier, headers)
        columnIndex == indexOf(headers, field)
    IN IF rowIndex = -1
       THEN [threw |-> TRUE, message |-> <<"Row with identifier ", "id", " not found">>]
       ELSE IF columnIndex = -1
       THEN [threw |-> TRUE, message |-> <<"Field ", "field", " not found in headers">>]
       ELSE [threw |-> FALSE, rowIndex |-> rowIndex, columnIndex |-> columnIndex,
             range |-> getA1Notation(rowIndex + 1, columnIndex)]

\* ------------------------------------------------------ SheetApi: validation
\* String(value) and the truthiness of a JavaScript value.
jsString(v) ==
    IF "str" \in DOMAIN v THEN v.str
    ELSE IF "num" \in DOMAIN v THEN numberToString(v.num)
    ELSE IF "bool" \in DOMAIN v THEN (IF v.bool THEN <<"t", "r", "u", "e">> ELSE <<"f", "a", "l", "s", "e">>)
    ELSE <<"u", "n", "d", "e", "f", "i", "n", "e", "d">>
truthy(v) ==
    IF "str" \in DOMAIN v THEN v.str # << >>
    ELSE IF "num" \in DOMAIN v THEN v.num # 0
    ELSE IF "bool" \in DOMAIN v THEN v.bool
    ELSE FALSE

\* /^[^\s@]+@[^\s@]+\.[^\s@]+$/.test(s): one '@', not first, no white space, and
\* a '.' after it with something on both sides.
emailPattern(s) ==
    \E i \in DOMAIN s : \E k \in DOMAIN s :
        /\ s[i] = "@" /\ s[k] = "."
        /\ 1 < i /\ i + 1 < k /\ k < Len(s)
        /\ \A j \in DOMAIN s : j # i => (s[j] # " " /\ s[j] # "@")

\* isNaN(Number(s)) of a trimmed string: Number reads '' (as 0), Infinity, a
\* decimal literal with an optional sign and exponent, and 0x/0o/0b integers.
isDigits(s) == s # << >> /\ \A i \in DOMAIN s : arrayIncludes(DigitChars, s[i])
isDecimal(s) ==
    \E d \in 0..Len(s) :
        LET int == SubSeq(s, 1, d)
            rest == SubSeq(s, d + 1, Len(s))
        IN /\ int = << >> \/ isDigits(int)
           /\ \/ rest = << >> /\ int # << >>
              \/ /\ rest # << >>
                 /\ Head(rest) = "."
                 /\ \/ Tail(rest) = << >> /\ int # << >>
                    \/ isDigits(Tail(rest))
isUnsignedNumber(s) ==
    \/ s = <<"I", "n", "f", "i", "n", "i", "t", "y">>
    \/ isDecimal(s)
    \/ \E e \in DOMAIN s :
          /\ s[e] \in {"e", "E"}
          /\ isDecimal(SubSeq(s, 1, e - 1))
          /\ LET x == SubSeq(s, e + 1, Len(s)) IN
                \/ isDigits(x)
                \/ x # << >> /\ Head(x) \in {"+", "-"} /\ isDigits(Tail(x))
HexChars == <<"a", "b", "c", "d", "e", "f">>
isRadixInteger(s) ==
    /\ Len(s) > 2
    /\ s[1] = "0"
    /\ LET digits == toLowerCase(SubSeq(s, 3, Len(s))) IN
          \/ /\ s[2] \in {"x", "X"}
             /\ \A i \in DOMAIN digits :
                   arrayIncludes(DigitChars, digits[i]) \/ arrayIncludes(HexChars, digits[i])
          \/ s[2] \in {"o", "O"} /\ \A i \in DOMAIN digits : digits[i] \in {"0", "1", "2", "3", "4", "5", "6", "7"}
          \/ s[2] \in {"b", "B"} /\ \A i \in DOMAIN digits : digits[i] \in {"0", "1"}
numberIsNaN(s) ==
    ~ \/ s = << >>
      \/ isUnsignedNumber(s)
      \/ s # << >> /\ Head(s) \in {"+", "-"} /\ isUnsignedNumber(Tail(s))
      \/ isRadixInteger(s)

isLetter(c) == arrayIncludes(UpperChars, c) \/ arrayIncludes(LowerChars, c)

\* The number a string of digits reads as.
digitValue(c) == indexOf(DigitChars, c)
RECURSIVE parseDigits(_)
parseDigits(s) ==
    IF s = << >> THEN 0
    ELSE 10 * parseDigits(SubSeq(s, 1, Len(s) - 1)) + digitValue(s[Len(s)])

\* Date.parse, as V8 (which runs the program) reads text made of letters,
\* digits, spaces, '/', ',' and '-'; the local time zone is UTC.
\*
\* A number token is its digits without the leading zeros, the first nine of them.
RECURSIVE stripZeros(_)
stripZeros(s) == IF s # << >> /\ Head(s) = "0" THEN stripZeros(Tail(s)) ELSE s
numeralValue(s) ==
    parseDigits(SubSeq(stripZeros(s), 1, IF Len(stripZeros(s)) < 9 THEN Len(stripZeros(s)) ELSE 9))
isDigit(c) == arrayIncludes(DigitChars, c)
RECURSIVE digitRun(_)
digitRun(s) == IF s # << >> /\ isDigit(Head(s)) THEN 1 + digitRun(Tail(s)) ELSE 0
RECURSIVE letterRun(_)
letterRun(s) == IF s # << >> /\ isLetter(Head(s)) THEN 1 + letterRun(Tail(s)) ELSE 0
skipDash(s) == IF s # << >> /\ Head(s) = "-" THEN Tail(s) ELSE s

\* The words the reader knows: a month by its first three letters, a time zone
\* by the whole word.
MonthNames == <<<<"j", "a", "n">>, <<"f", "e", "b">>, <<"m", "a", "r">>, <<"a", "p", "r">>, <<"m", "a", "y">>, <<"j", "u", "n">>, <<"j", "u", "l">>, <<"a", "u", "g">>, <<"s", "e", "p">>, <<"o", "c", "t">>, <<"n", "o", "v">>, <<"d", "e", "c">>>>
UtcNames == <<<<"u", "t">>, <<"u", "t", "c">>, <<"z">>, <<"g", "m", "t">>>>
TimeZoneNames == UtcNames \o <<<<"c", "d", "t">>, <<"c", "s", "t">>, <<"e", "d", "t">>, <<"e", "s", "t">>, <<"m", "d", "t">>, <<"m", "s", "t">>, <<"p", "d", "t">>, <<"p", "s", "t">>>>
NoDate == [ok |-> FALSE, comp |-> << >>, month |-> 0, zone |-> "none"]
zoneOf(isUtc) == IF isUtc THEN "utc" ELSE "west"

\* The legacy reader on the text s: comp is the numbers of the date read so far
\* (at most three), month the last month name (0: none), read whether a number
\* has been read, zone the time zone read: none, utc, or west, a zone behind
\* UTC (every other zone name, and every offset after a '-' but 0).
RECURSIVE legacyDateTokens(_, _, _, _, _)
\* The first n characters of s are a number: it is a number of the date, and a
\* '-' after it is skipped.
legacyDateNumber(s, n, comp, month, zone) ==
    IF Len(comp) = 3 THEN NoDate
    ELSE legacyDateTokens(skipDash(SubSeq(s, n + 1, Len(s))),
                          Append(comp, numeralValue(SubSeq(s, 1, n))), month, TRUE, zone)
\* A word (lower-cased) and the text after it: a month name (a '-' after it is
\* skipped), the name of a time zone after a number, or a word that is refused
\* after a number and right before one, and skipped otherwise.
legacyDateWord(word, rest, comp, month, read, zone) ==
    IF Len(word) >= 3 /\ arrayIncludes(MonthNames, SubSeq(word, 1, 3))
    THEN legacyDateTokens(skipDash(rest), comp, indexOf(MonthNames, SubSeq(word, 1, 3)) + 1,
                          read, zone)
    ELSE IF read /\ arrayIncludes(TimeZoneNames, word)
    THEN legacyDateTokens(rest, comp, month, read, zoneOf(arrayIncludes(UtcNames, word)))
    ELSE IF read \/ (rest # << >> /\ isDigit(Head(rest))) THEN NoDate
    ELSE legacyDateTokens(rest, comp, month, read, zone)
\* A '-' after the time zone UTC starts an offset: the number of n digits right
\* after it, one to four of them (hours, or hours and minutes).
legacyDateOffset(rest, n, comp, month) ==
    IF n = 0 \/ n > 4 THEN NoDate
    ELSE legacyDateTokens(SubSeq(rest, n + 1, Len(rest)), comp, month, TRUE,
                          zoneOf(numeralValue(SubSeq(rest, 1, n)) = 0))
\* Any other '-' is refused after a number and skipped before the first.
legacyDateSign(rest, comp, month, read, zone) ==
    IF zone = "utc" THEN legacyDateOffset(rest, digitRun(rest), comp, month)
    ELSE IF read THEN NoDate
    ELSE legacyDateTokens(rest, comp, month, read, zone)
legacyDateTokens(s, comp, month, read, zone) ==
    IF s = << >> THEN [ok |-> TRUE, comp |-> comp, month |-> month, zone |-> zone]
    ELSE IF isDigit(Head(s)) THEN legacyDateNumber(s, digitRun(s), comp, month, zone)
    ELSE IF isLetter(Head(s))
    THEN legacyDateWord(toLowerCase(SubSeq(s, 1, letterRun(s))),
                        SubSeq(s, letterRun(s) + 1, Len(s)), comp, month, read, zone)
    ELSE IF Head(s) = "-" THEN legacyDateSign(Tail(s), comp, month, read, zone)
    ELSE IF Head(s) \in {" ", "/", ","} THEN legacyDateTokens(Tail(s), comp, month, read, zone)
    ELSE NoDate

\* DayComposer::Write on n numbers (a missing one is 1).  Without a month name
\* they are year, month, day when the date is an ISO date or the first cannot be
\* a day of the month (1 to 31), else month, day, year; with one, the first
\* number is the day if it can be one and the second the year, else the first is
\* the year and the second the day.  The month must be 1 to 12, the day 1 to 31,
\* and the time a time value: from 20 April -271821 to 13 September 275760,
\* where midnight is the last one (west: the zone puts the time after it).
isDayNumber(n) == n >= 1 /\ n <= 31
validDate(year, month, day, west) ==
    /\ month >= 1 /\ month <= 12
    /\ isDayNumber(day)
    /\ \/ year < 275760
       \/ year = 275760 /\ (month < 9 \/ (month = 9 /\ day < 13))
       \/ year = 275760 /\ month = 9 /\ day = 13 /\ ~west
    /\ \/ year > -271821
       \/ year = -271821 /\ (month > 4 \/ (month = 4 /\ day >= 20))
dayComposerWrite(n, c1, c2, c3, month, iso, west) ==
    /\ n >= 1
    /\ IF month = 0
       THEN IF iso \/ ~isDayNumber(c1)
            THEN validDate(c1, c2, c3, west)
            ELSE validDate(c3, c1, c2, west)
       ELSE IF isDayNumber(c1)
            THEN validDate(c2, month, c1, west)
            ELSE validDate(c1, month, c2, west)
dayComposerWriteOf(read, iso) ==
    /\ read.ok
    /\ dayComposerWrite(Len(read.comp), (read.comp \o <<1, 1, 1>>)[1], (read.comp \o <<1, 1, 1>>)[2],
                        (read.comp \o <<1, 1, 1>>)[3], read.month, iso, read.zone = "west")

\* The legacy reader takes the text s after the numbers comp of an ISO date.
legacyDateParses(comp, s) ==
    dayComposerWriteOf(legacyDateTokens(s, comp, 0, comp # << >>, "none"), FALSE)

\* The ISO reader comes first: YYYY (or -YYYYYY, a year before 0, which is not
\* -000000), then -MM, then -DD, each a number of
\* exactly that many digits; where the text stops being that, the legacy reader
\* goes on from there with the numbers read.  After the date the text ends (an
\* ISO date), or a time follows the separator T (there is none without ':').
isFixedNumber(s, k) ==
    /\ Len(s) >= k
    /\ \A i \in 1..k : isDigit(s[i])
    /\ Len(s) > k => ~isDigit(s[k + 1])
isoAfterDate(comp, rest) ==
    IF rest = << >>
    THEN dayComposerWriteOf([ok |-> TRUE, comp |-> comp, month |-> 0, zone |-> "none"], TRUE)
    ELSE IF letterRun(rest) = 1 /\ toLowerChar(Head(rest)) = "t" THEN FALSE
    ELSE legacyDateParses(comp, rest)
isoAfterMonth(comp, rest) ==
    IF rest = << >> \/ Head(rest) # "-" THEN isoAfterDate(comp, rest)
    ELSE IF isFixedNumber(Tail(rest), 2) /\ isDayNumber(numeralValue(SubSeq(rest, 2, 3)))
    THEN isoAfterDate(Append(comp, numeralValue(SubSeq(rest, 2, 3))), SubSeq(rest, 4, Len(rest)))
    ELSE legacyDateParses(comp, Tail(rest))
isoAfterYear(comp, rest) ==
    IF rest = << >> \/ Head(rest) # "-" THEN isoAfterDate(comp, rest)
    ELSE IF /\ isFixedNumber(Tail(rest), 2)
            /\ numeralValue(SubSeq(rest, 2, 3)) >= 1 /\ numeralValue(SubSeq(rest, 2, 3)) <= 12
    THEN isoAfterMonth(Append(comp, numeralValue(SubSeq(rest, 2, 3))), SubSeq(rest, 4, Len(rest)))
    ELSE legacyDateParses(comp, Tail(rest))

\* !isNaN(Date.parse(s)).
dateParses(s) ==
    IF isFixedNumber(s, 4)
    THEN isoAfterYear(<<numeralValue(SubSeq(s, 1, 4))>>, SubSeq(s, 5, Len(s)))
    ELSE IF s # << >> /\ Head(s) = "-" /\ isFixedNumber(Tail(s), 6)
    THEN IF numeralValue(SubSeq(s, 2, 7)) = 0
         THEN legacyDateParses(<< >>, SubSeq(s, 8, Len(s)))
         ELSE isoAfterYear(<<0 - numeralValue(SubSeq(s, 2, 7))>>, SubSeq(s, 8, Len(s)))
    ELSE legacyDateParses(<< >>, s)

\* new Date(value) is a valid date: a string is parsed, a number is a time value
\* (those here are far below the limit of 8.64e15 ms), a boolean is the time
\* value 0 or 1.
newDateValid(v) ==
    IF "str" \in DOMAIN v THEN dateParses(v.str)
    ELSE "num" \in DOMAIN v \/ "bool" \in DOMAIN v

\* new URL(s) does not throw: s starts with a scheme and ':', and a special
\* scheme is followed by a host (taken to be made of valid host characters).
SpecialSchemes == <<<<"h", "t", "t", "p">>, <<"h", "t", "t", "p", "s">>, <<"f", "t", "p">>, <<"w", "s">>, <<"w", "s", "s">>>>
RECURSIVE stripSlashes(_)
stripSlashes(s) == IF s # << >> /\ Head(s) \in {"/", "\\"} THEN stripSlashes(Tail(s)) ELSE s
urlParses(s) ==
    \E c \in DOMAIN s :
        /\ s[c] = ":"
        /\ c > 1
        /\ isLetter(s[1])
        /\ \A i \in 2..(c - 1) :
              isLetter(s[i]) \/ arrayIncludes(DigitChars, s[i]) \/ s[i] \in {"+", "-", "."}
        /\ arrayIncludes(SpecialSchemes, toLowerCase(SubSeq(s, 1, c - 1)))
              => stripSlashes(SubSeq(s, c + 1, Len(s))) # << >>

\* SheetApi.isValidType.
validBooleans == <<<<"t", "r", "u", "e">>, <<"f", "a", "l", "s", "e">>, <<"y", "e", "s">>, <<"n", "o">>, <<"1">>, <<"0">>>>
isValidType(value, expectedType) ==
    LET stringValue == trim(jsString(value)) IN
    IF expectedType = <<"e", "m", "a", "i", "l">> THEN emailPattern(stringValue)
    ELSE IF expectedType = <<"n", "u", "m", "b", "e", "r">> THEN ~numberIsNaN(stringValue) /\ stringValue # << >>
    ELSE IF expectedType = <<"d", "a", "t", "e">> THEN dateParses(stringValue)
    ELSE IF expectedType = <<"u", "r", "l">> THEN urlParses(stringValue)
    ELSE IF expectedType = <<"b", "o", "o", "l", "e", "a", "n">> THEN arrayIncludes(validBooleans, toLowerCase(stringValue))
    ELSE TRUE

\* SheetClient.getFieldType: config.dataTypes[fieldName] || 'text'.
getFieldType(dataTypes, fieldName) ==
    IF fieldName \in DOMAIN dataTypes /\ dataTypes[fieldName] # << >>
    THEN dataTypes[fieldName]
    ELSE <<"t", "e", "x", "t">>

\* data[key] of the row object, given as the sequence of its entries
\* (Object.entries order, one entry for a key).
dataField(data, key) ==
    IF \E i \in DOMAIN data : data[i].field = key
    THEN data[CHOOSE i \in DOMAIN data : data[i].field = key].value
    ELSE Undefined

\* SheetApi.validateRowData: the messages of the errors, in order.
validateRowData(data, headers, dataTypes) ==
    LET primaryField == headers[1]
        required ==
            IF Len(headers) > 0
               /\ (~truthy(dataField(data, primaryField))
                   \/ trim(jsString(dataField(data, primaryField))) = << >>)
            THEN <<primaryField \o <<" ", "i", "s", " ", "r", "e", "q", "u", "i", "r", "e", "d">>>>
            ELSE << >>
        invalid(entry) ==
            /\ entry.value # Null /\ entry.value # Undefined
            /\ trim(jsString(entry.value)) # << >>
            /\ ~isValidType(entry.value, getFieldType(dataTypes, entry.field))
        wrong == SelectSeq(data, invalid)
        errors == required \o [i \in DOMAIN wrong |->
                      wrong[i].field \o <<" ", "m", "u", "s", "t", " ", "b", "e", " ", "a", " ", "v", "a", "l", "i", "d", " ">> \o getFieldType(dataTypes, wrong[i].field)]
    IN [isValid |-> Len(errors) = 0, errors |-> errors]

\* SheetClient.addRow's formatValue(data[header] || '', config.dataTypes[header])
\* throws for some header: the type is 'date' and new Date(value) is not a date.
formatValueThrows(data, headers, dataTypes) ==
    \E c \in DOMAIN headers :
        /\ headers[c] \in DOMAIN dataTypes
        /\ dataTypes[headers[c]] = <<"d", "a", "t", "e">>
        /\ LET v == dataField(data, headers[c])
               value == IF truthy(v) THEN v ELSE Str(<< >>)
           IN ~newDateValid(value)

\* SheetApi.addRow as a whole on a row object: validateRowData, then
\* client.addRow.  put: the PUT was sent; invalidated: the cache was dropped.
sheetApiAddRowUnvalidated(data, headers, dataTypes, reply, t) ==
    LET a == clientAddRowCall(formatValueThrows(data, headers, dataTypes), reply) IN
    [response |-> sheetApiAddRow(a.result, t), put |-> a.put, invalidated |-> a.returned]
sheetApiAddRowOf(data, headers, dataTypes, reply, t) ==
    LET validation == validateRowData(data, headers, dataTypes) IN
    IF ~validation.isValid
    THEN [response |-> ApiResponse(FALSE, Null, <<"V", "a", "l", "i", "d", "a", "t", "i", "o", "n", " ", "f", "a", "i", "l", "e", "d", ":", " ">> \o join(validation.errors), t),
          put |-> FALSE, invalidated |-> FALSE]
    ELSE LET a == clientAddRowCall(formatValueThrows(data, headers, dataTypes), reply) IN
         [response |-> sheetApiAddRow(a.result, t), put |-> a.put, invalidated |-> a.returned]

\* -------------------------------------------------------- ConnectionTester
\* The number of rows (header row included) in data.values of a body.
valuesLength(values) ==
    IF values = "rows" THEN 2 ELSE IF values = "headerOnly" THEN 1 ELSE 0

\* ConnectionTester.quickTest on the reply to its GET.  It looks at response.ok
\* first: the body of a response that is not ok may fail to parse (the error is
\* then the status line), the body of one that is ok may not.
connectionQuickTest(reply) ==
    CASE reply.type = "fetchThrows" ->
            [connected |-> FALSE, error |-> <<"Failed to fetch">>, rowCount |-> -1]
      [] reply.type = "badJson" ->
            [connected |-> FALSE,
             error |-> IF reply.ok THEN <<"Unexpected token">> ELSE <<"HTTP 502: Bad Gateway">>,
             rowCount |-> -1]
      [] reply.type = "notOk" ->
            [connected |-> FALSE,
             error |-> Or(reply.error, <<"HTTP 500: Internal Server Error">>), rowCount |-> -1]
      [] reply.type = "body" ->
            LET length == IF reply.success THEN valuesLength(reply.values) ELSE 0 IN
            [connected |-> TRUE, error |-> EmptyStr,
             rowCount |-> IF length - 1 > 0 THEN length - 1 ELSE 0]

\* ----------------------------------------------------- SheetClient: search
\* Number(value), on the values Number reads as integers: NaN, or the integer.
NaN == [nan |-> TRUE, n |-> 0]
Number(n) == [nan |-> FALSE, n |-> n]
jsNumber(v) ==
    IF v = Null THEN Number(0)
    ELSE IF "num" \in DOMAIN v THEN Number(v.num)
    ELSE IF "bool" \in DOMAIN v THEN Number(IF v.bool THEN 1 ELSE 0)
    ELSE IF "str" \in DOMAIN v
    THEN LET s == trim(v.str) IN
         IF s = << >> THEN Number(0)
         ELSE IF isDigits(s) THEN Number(parseDigits(s))
         ELSE IF Head(s) = "-" /\ isDigits(Tail(s)) THEN Number(0 - parseDigits(Tail(s)))
         ELSE IF Head(s) = "+" /\ isDigits(Tail(s)) THEN Number(parseDigits(Tail(s)))
         ELSE NaN
    ELSE NaN

\* SheetClient.filterData: does the filter keep the row?  The query has a field.
filterKeeps(row, query) ==
    LET fieldValue == IF query.field # << >> THEN rowField(row, query.field) ELSE Null
        searchValue == query.value
        fieldString == toLowerCase(IF fieldValue = Null THEN <<"n", "u", "l", "l">> ELSE jsString(fieldValue))
        searchString == toLowerCase(jsString(searchValue))
        fieldFalsy == fieldValue = Null \/ ~truthy(fieldValue)
    IN
    IF fieldFalsy /\ ~truthy(searchValue) THEN TRUE
    ELSE IF query.operator = "equals" THEN fieldValue = searchValue
    ELSE IF query.operator = "contains" THEN includes(fieldString, searchString)
    ELSE IF query.operator = "startsWith" THEN startsWith(fieldString, searchString)
    ELSE IF query.operator = "greaterThan"
    THEN /\ ~jsNumber(fieldValue).nan /\ ~jsNumber(searchValue).nan
         /\ jsNumber(fieldValue).n > jsNumber(searchValue).n
    ELSE IF query.operator = "lessThan"
    THEN /\ ~jsNumber(fieldValue).nan /\ ~jsNumber(searchValue).nan
         /\ jsNumber(fieldValue).n < jsNumber(searchValue).n
    ELSE includes(fieldString, searchString)

\* SheetClient.filterData.
filterData(data, query) ==
    IF query.field = << >> /\ ~truthy(query.value) THEN data
    ELSE LET keeps(row) == filterKeeps(row, query) IN SelectSeq(data, keeps)

\* ------------------------------------------------- ConnectionTester: tests
\* What a fetch of a test can produce: it rejects, or a response with a status
\* (response.ok is a status from 200 to 299) and a body:
\*   notJson   : response.json() rejects (the tests read {} instead)
\*   object    : a JSON object whose fields can be read
\*   null      : the JSON null, of which no field can be read
\*   badValues : an object whose data.values is truthy and has no slice (a number)
Statuses == {200, 401, 403, 404, 500}
Bodies == {"notJson", "object", "null", "badValues"}
TestReplies ==
    {[type |-> "fetchThrows"]}
    \cup {[type |-> "response", status |-> st, body |-> b] : st \in Statuses, b \in Bodies}
responseOk(reply) == reply.status >= 200 /\ reply.status <= 299
TestResult(name, success) == [name |-> name, success |-> success]

\* ConnectionTester.testConfiguration: no issue is found in the configuration.
testConfiguration(config) ==
    TestResult("Configuration Validation",
               /\ config.apiBaseUrl # << >> /\ startsWith(config.apiBaseUrl, <<"h", "t", "t", "p">>)
               /\ config.apiKey # << >> /\ startsWith(config.apiKey, <<"s", "k", "_">>)
               /\ config.sheetId # << >>
               /\ Len(config.headers) # 0)

\* ConnectionTester.testApiReachability.
testApiReachability(reply) ==
    TestResult("API Reachability", reply.type = "response" /\ reply.status < 500)

\* ConnectionTester.testAuthentication: past the statuses 401 and 403 it reads
\* responseData.data, which throws on null.
testAuthentication(reply) ==
    TestResult("Authentication",
               /\ reply.type = "response"
               /\ reply.status # 401 /\ reply.status # 403
               /\ reply.body # "null"
               /\ responseOk(reply))

\* ConnectionTester.testSheetAccess: past the statuses 404 and 403 it reads
\* responseData.data, which throws on null.
testSheetAccess(reply) ==
    TestResult("Sheet Access",
               /\ reply.type = "response"
               /\ reply.status # 404 /\ reply.status # 403
               /\ reply.body # "null"
               /\ responseOk(reply))

\* ConnectionTester.testDataRetrieval: it reads responseData.error or
\* responseData.data, which throws on null, and calls values.slice.
testDataRetrieval(reply) ==
    TestResult("Data Retrieval",
               /\ reply.type = "response"
               /\ responseOk(reply)
               /\ reply.body # "null" /\ reply.body # "badValues")

\* A runFullTest that reports success as soon as one test passed.
fullTestResultAnyPassed(tests) ==
    LET passed == Len(SelectSeq(tests, LAMBDA t : t.success)) IN
    [success |-> passed > 0,
     summary |-> [totalTests |-> Len(tests), passed |-> passed, failed |-> Len(tests) - passed]]

\* ConnectionTester.runFullTest once the tests have run: the result it returns.
fullTestResult(tests) ==
    LET testResults == tests
        passed == Len(SelectSeq(testResults, LAMBDA t : t.success))
        failed == Len(SelectSeq(testResults, LAMBDA t : ~t.success))
    IN [success |-> passed = Len(testResults),
        summary |-> [totalTests |-> Len(testResults), passed |-> passed, failed |-> failed]]

\* -------------------------------------------------------------- ApiManager
\* ApiManager.performQuickTest around the settled sheetApi.getAllData.
performQuickTest(result) ==
    IF result.success /\ result.data # Null
    THEN [connected |-> TRUE, error |-> EmptyStr, rowCount |-> result.data.length]
    ELSE [connected |-> FALSE, error |-> Or(result.error, <<"Unknown error">>), rowCount |-> -1]

CachedResponse(data, timestamp, ttl) == [data |-> data, timestamp |-> timestamp, ttl |-> ttl]

\* A getCachedResponse that measures every entry against DEFAULT_TTL.
isExpiredDefaultTtl(entry, customTtl, t) ==
    t - entry.timestamp > DEFAULT_TTL

\* ApiManager.getCachedResponse: is the entry expired at time t?
isExpired(entry, customTtl, t) ==
    LET ttl == IF customTtl # 0 THEN customTtl ELSE entry.ttl IN
    t - entry.timestamp > ttl

customTtlOf(k) == IF k = "quickTest" THEN QUICK_TTL ELSE 0
ttlOf(k) == IF k = "quickTest" THEN QUICK_TTL ELSE DEFAULT_TTL


\* ------------------------------------------------------------------- hooks
EmptyList == [length |-> 0]

\* useSheetData.fetchData once apiManager.getAllData() has returned.
fetchDataDone(response) ==
    IF response.success
    THEN [data |-> IF response.data = Null THEN EmptyList ELSE response.data,
          error |-> EmptyStr, loading |-> FALSE]
    ELSE [data |-> EmptyList, error |-> Or(response.error, <<"Failed to load data">>),
          loading |-> FALSE]

\* useQuickConnectionStatus.checkConnection once quickConnectionTest() has returned.
checkConnectionDone(result) ==
    [connected |-> result.connected, error |-> result.error,
     rowCount |-> result.rowCount, checking |-> FALSE]

\* ------------------------------------------------------------------- state
VARIABLES
    now,              \* Date.now()
    ticks,            \* times the clock has advanced
    cache,            \* ApiManager.cache: key -> CachedResponse or Null
    pendingRequests,  \* ApiManager.pendingRequests: key -> PendingRequest or Null
    lastRequestTime,  \* ApiManager.lastRequestTime
    clientCache,      \* SheetClient.cache.get('all_data'): {data, timestamp} or Null
    calls,            \* the calls of apiManager.getAllData / quickConnectionTest in progress
    lastCall,         \* the call that returned in the last step (NoCall if none did): its kind,
                      \* what it returned, its fence and minVer, and the time the response was
                      \* cached when it came from the ApiManager's cache (-1 otherwise)
    lastStart,        \* when the ApiManager last started an underlying request (-1: never)
    startGap,         \* the time between the request started in the last step and the one
                      \* before it (-1 if the last step started none, or the first)
    sheet,            \* the version of the sheet the server holds
    httpCount,        \* GET requests sent so far; a GET's number identifies it
    callCount,        \* calls of the ApiManager, useAddRow and useUpdateField made so far
    mut,              \* useAddRow.addRow or useUpdateField.updateField in progress
    mutDone,          \* the sheet version written by the last addRow or updateField that
                      \* resolved with success
    nextCleanup,      \* when the ApiManager's cleanup interval fires next
    apiCall,          \* the SheetApi operation that settled in the last step: what it was, the
                      \* reply to its GET (if it sent one), the response it resolved to, and
                      \* the results of the updateFields of a write
    ops,              \* the SheetApi operations in progress (those called without the
                      \* ApiManager): what each waits for
    optimistic,       \* useOptimisticUpdate: the state data, isUpdating, error
    previousDataRef,  \* useOptimisticUpdate: previousDataRef.current
    renderedData,     \* the data of the last render: what the hook exposes, and what the
                      \* optimisticUpdate callback of that render closes over
    updates,          \* the optimisticUpdate calls: idle, pending or done, and the data
                      \* exposed when the call was made
    lastUpdate,       \* what the last step did to an optimisticUpdate call
    effect,           \* useOptimisticUpdate: the effect a render with another initialData
                      \* has left to run
    fnIn,             \* the arguments of the function under study (NoInput: none)
    fnOut             \* what the function returned for them (NotRun: not applied yet)

mgrVars == <<now, ticks, cache, pendingRequests, lastRequestTime, clientCache, calls, lastCall,
             lastStart, startGap,
             sheet, httpCount, callCount, mut, mutDone, nextCleanup>>
apiVars == <<apiCall, ops>>
optVars == <<optimistic, previousDataRef, renderedData, updates, lastUpdate, effect>>
fnVars == <<fnIn, fnOut>>
vars == <<mgrVars, apiVars, optVars, fnVars>>

NoApiCall == [op |-> "none", sent |-> FALSE, reply |-> Null, out |-> Null, results |-> << >>]

\* The data of useOptimisticUpdate is the set of rows whose status is toggled.
Updates == 1..NUpdates
NoUpdate == [u |-> 0, outcome |-> "none", before |-> {}, was |-> {}]
NoEffect == [pending |-> FALSE, initialData |-> {}]

\* No operation is in progress in the slot.  (parts: the updateFields of a write.)
OpSlots == 1..NOps
IdleOp == [pc |-> "idle", op |-> "none", arg |-> Null, req |-> 0, sentVer |-> 0,
           parts |-> << >>]

InitApi == apiCall = NoApiCall /\ ops = [o \in OpSlots |-> IdleOp]

NoInput == [fn |-> "none"]
NotRun == [fn |-> "none"]
InitFn == fnIn = NoInput /\ fnOut = NotRun

InitOpt ==
    /\ optimistic = [data |-> {}, isUpdating |-> FALSE, error |-> EmptyStr]
    /\ previousDataRef = {}
    /\ renderedData = {}
    /\ updates = [u \in Updates |-> [pc |-> "idle", before |-> {}]]
    /\ lastUpdate = NoUpdate
    /\ effect = NoEffect

IdleCall == [pc |-> "idle", kind |-> "getAllData", wake |-> 0, req |-> 0,
             sentVer |-> 0, fence |-> -1, minVer |-> 0, evicted |-> FALSE]
\* No addRow or updateField is in progress.  (req, sentVer: the GET of an updateField.)
IdleMut == [pc |-> "idle", op |-> "none", req |-> 0, sentVer |-> 0]
NoCall == [kind |-> "none", result |-> Null, fence |-> -1, minVer |-> 0, cachedAt |-> -1]

InitMgr ==
    /\ now = MIN_REQUEST_INTERVAL       \* the page loads well after the epoch
    /\ ticks = 0
    /\ cache = [k \in Keys |-> Null]
    /\ pendingRequests = [k \in Keys |-> Null]
    /\ lastRequestTime = 0
    /\ clientCache = Null
    /\ calls = [c \in Slots |-> IdleCall]
    /\ lastCall = NoCall
    /\ lastStart = -1
    /\ startGap = -1
    /\ sheet = 0
    /\ httpCount = 0
    /\ callCount = 0
    /\ mut = IdleMut
    /\ mutDone = 0
    /\ nextCleanup = MIN_REQUEST_INTERVAL + CLEANUP_INTERVAL   \* the constructor ran at page load

\* A continuation is waiting in the microtask queue.
MicrotaskPending == \E c \in Slots : calls[c].pc = "resume"

\* The record of the calls rs (one or more, of one kind) that return together.
Returned(rs, result, cachedAt) ==
    [kind |-> (CHOOSE r \in rs : TRUE).kind,
     result |-> result,
     cachedAt |-> cachedAt,
     fence |-> CHOOSE f \in {r.fence : r \in rs} : \A r \in rs : r.fence <= f,
     minVer |-> CHOOSE v \in {r.minVer : r \in rs} : \A r \in rs : r.minVer <= v]

\* ApiManager.getAllData / quickConnectionTest up to its first await, called on
\* the cache `c0` (the cache as the caller left it: refresh clears it first).
\* fence is the number of GETs sent when the caller cleared the cache (-1: it did not).
CallStart(c, k, c0, fence) ==
    LET entry == c0[k]
        hit == entry # Null /\ ~isExpired(entry, customTtlOf(k), now)
        c1 == IF entry # Null /\ ~hit THEN [c0 EXCEPT ![k] = Null] ELSE c0
        pending == pendingRequests[k]
        timeSinceLastRequest == now - lastRequestTime
        me == [IdleCall EXCEPT !.kind = k, !.fence = fence, !.minVer = mutDone,
                               !.evicted = (entry # Null /\ ~hit)]
    IN
    /\ calls[c].pc = "idle"
    /\ \A b \in Slots : b < c => calls[b].pc # "idle"   \* idle callers are alike: take the first
    /\ callCount < MaxCalls
    /\ callCount' = callCount + 1
    /\ cache' = c1
    /\ UNCHANGED <<now, ticks, pendingRequests, clientCache, sheet, httpCount, mut, mutDone, nextCleanup,
                   lastStart>>
    /\ startGap' = -1
    /\ IF hit
       THEN \* return cached
            /\ lastCall' = Returned({me}, entry.data, entry.timestamp)
            /\ UNCHANGED <<calls, lastRequestTime>>
       ELSE /\ lastCall' = NoCall
            /\ IF pending # Null
               THEN \* return await pending.promise
                    /\ calls' = [calls EXCEPT ![c] = [me EXCEPT !.pc = "awaitPending", !.req = pending.promise]]
                    /\ UNCHANGED lastRequestTime
               ELSE \* await this.enforceRateLimit()
                    /\ IF timeSinceLastRequest < MIN_REQUEST_INTERVAL
                       THEN /\ calls' = [calls EXCEPT ![c] = [me EXCEPT !.pc = "rateWait",
                                  !.wake = now + (MIN_REQUEST_INTERVAL - timeSinceLastRequest)]]
                            /\ UNCHANGED lastRequestTime
                       ELSE /\ calls' = [calls EXCEPT ![c] = [me EXCEPT !.pc = "resume"]]
                            /\ lastRequestTime' = now

\* useSheetData.fetchData / useQuickConnectionStatus.checkConnection (mount, or a re-fetch).
Fetch(c, k) == CallStart(c, k, cache, -1)

\* useSheetData.refresh / useQuickConnectionStatus.refresh: clearCache, then fetch.
Refresh(c, k) == CallStart(c, k, [x \in Keys |-> Null], httpCount)


\* What a GET can be answered with in the concurrent model: a representative of
\* each path through makeRequest and SheetClient.getAllData.
GetReplies ==
    {[type |-> "fetchThrows"],
     [type |-> "body", success |-> TRUE, error |-> EmptyStr, values |-> "headerOnly"],
     [type |-> "body", success |-> TRUE, error |-> EmptyStr, values |-> "rows"]}

\* ApiManager.makeNewRequest / makeQuickTestRequest once the promise of
\* sheetApi.getAllData() / performQuickTest() has settled with client result r:
\* cache the result, delete the key's pending entry, and return the result to the
\* caller and to every call that awaits the same promise (promise: its number,
\* 0 for a promise nobody else could have seen).
Settle(c, r, promise) ==
    LET k == calls[c].kind
        response == sheetApiGetAllData(r, now)
        result == IF k = "quickTest" THEN performQuickTest(response) ELSE response
        receivers == {c} \cup {w \in Slots : /\ promise # 0
                                            /\ calls[w].pc = "awaitPending"
                                            /\ calls[w].req = promise}
    IN
    /\ cache' = IF k = "quickTest"
                THEN [cache EXCEPT ![k] = CachedResponse(result, now, QUICK_TTL)]
                ELSE IF result.success
                     THEN [cache EXCEPT ![k] = CachedResponse(result, now, DEFAULT_TTL)]
                     ELSE cache
    /\ pendingRequests' = [pendingRequests EXCEPT ![k] = Null]
    /\ lastCall' = Returned({calls[w] : w \in receivers}, result, -1)
    /\ calls' = [w \in Slots |-> IF w \in receivers THEN IdleCall ELSE calls[w]]

\* The continuation of `await this.enforceRateLimit()`: after the timer (which
\* sets lastRequestTime) or straight from the microtask queue, makeNewRequest /
\* makeQuickTestRequest calls sheetApi.getAllData(), which calls
\* SheetClient.getAllData(): its cache answers, or a GET is sent.
StartRequest(c) ==
    LET k == calls[c].kind
        fresh == cacheFresh(clientCache, now)
    IN
    /\ \/ calls[c].pc = "resume"
       \/ calls[c].pc = "rateWait" /\ now >= calls[c].wake /\ ~MicrotaskPending
    /\ lastRequestTime' = IF calls[c].pc = "rateWait" THEN now ELSE lastRequestTime
    /\ UNCHANGED <<now, ticks, sheet, mut, mutDone, nextCleanup, clientCache, callCount>>
    /\ lastStart' = now
    /\ startGap' = IF lastStart = -1 THEN -1 ELSE now - lastStart
    /\ IF fresh
       THEN /\ Settle(c, Return(clientCache.data), 0)
            /\ UNCHANGED httpCount
       ELSE /\ httpCount' = httpCount + 1
            /\ calls' = [calls EXCEPT ![c] = [@ EXCEPT !.pc = "awaitOwn", !.req = httpCount + 1,
                                                       !.sentVer = sheet]]
            /\ pendingRequests' = [pendingRequests EXCEPT ![k] =
                                      [promise |-> httpCount + 1, timestamp |-> now]]
            /\ lastCall' = NoCall
            /\ UNCHANGED cache

\* fetch settles for the GET of call c.  The server read the sheet at some moment
\* since the GET was sent, so it answers from a version ver between the one at
\* sending and the current one.  SheetClient.getAllData caches the rows,
\* SheetApi.getAllData wraps them, the ApiManager settles.
Deliver(c, reply, ver) ==
    LET r == clientGetAllDataResult(reply, calls[c].req, ver, now) IN
    /\ calls[c].pc = "awaitOwn"
    /\ ~MicrotaskPending
    /\ ver \in calls[c].sentVer..sheet
    /\ r.threw => ver = sheet                \* no rows: the version read is immaterial
    /\ clientCache' = IF r.threw THEN clientCache
                      ELSE [data |-> r.value, timestamp |-> now]
    /\ Settle(c, r, calls[c].req)
    /\ startGap' = -1
    /\ UNCHANGED <<now, ticks, lastRequestTime, sheet, httpCount, callCount, mut, mutDone, nextCleanup,
                   lastStart>>

\* Time passes, by one of the durations the program measures, up to the moment
\* the cleanup interval fires at the latest.
Durations == {MIN_REQUEST_INTERVAL, QUICK_TTL, DEFAULT_TTL}
Tick(d) ==
    /\ ~MicrotaskPending
    /\ ticks < MaxTicks
    /\ now + d <= nextCleanup
    /\ ticks' = ticks + 1
    /\ now' = now + d
    /\ lastCall' = NoCall
    /\ startGap' = -1
    /\ UNCHANGED <<cache, pendingRequests, lastRequestTime, clientCache, calls, lastStart,
                   sheet, httpCount, callCount, mut, mutDone, nextCleanup>>

\* ApiManager.clearCache called on its own (the "Clear Cache" button of
\* ApiDebugger), on a cache that holds something (on an empty one it changes nothing).
ClearCache ==
    /\ \E k \in Keys : cache[k] # Null
    /\ cache' = [k \in Keys |-> Null]
    /\ lastCall' = NoCall
    /\ startGap' = -1
    /\ UNCHANGED <<now, ticks, pendingRequests, lastRequestTime, clientCache, calls, lastStart,
                   sheet, httpCount, callCount, mut, mutDone, nextCleanup>>

\* ApiManager.clearCacheEntry(key), for a key the cache holds (for another one it
\* changes nothing).
ClearCacheEntry(k) ==
    /\ cache[k] # Null
    /\ cache' = [cache EXCEPT ![k] = Null]
    /\ lastCall' = NoCall
    /\ startGap' = -1
    /\ UNCHANGED <<now, ticks, pendingRequests, lastRequestTime, clientCache, calls, lastStart,
                   sheet, httpCount, callCount, mut, mutDone, nextCleanup>>

\* ApiManager.cleanup, run by the interval the constructor sets: it deletes the
\* cache entries older than their ttl and the pending requests older than
\* PENDING_MAX_AGE.
Cleanup ==
    /\ ~MicrotaskPending
    /\ now >= nextCleanup
    /\ nextCleanup' = nextCleanup + CLEANUP_INTERVAL
    /\ cache' = [k \in Keys |->
                    IF cache[k] # Null /\ now - cache[k].timestamp > cache[k].ttl
                    THEN Null ELSE cache[k]]
    /\ pendingRequests' = [k \in Keys |->
                    IF /\ pendingRequests[k] # Null
                       /\ now - pendingRequests[k].timestamp > PENDING_MAX_AGE
                    THEN Null ELSE pendingRequests[k]]
    /\ lastCall' = NoCall
    /\ startGap' = -1
    /\ UNCHANGED <<now, ticks, lastRequestTime, clientCache, calls, lastStart,
                   sheet, httpCount, callCount, mut, mutDone>>

\* What the PUT of addRow or the POST of updateField can be answered with.
WriteReplies ==
    {[type |-> "fetchThrows"],
     [type |-> "body", success |-> FALSE, error |-> EmptyStr, values |-> "none"],
     [type |-> "body", success |-> TRUE, error |-> EmptyStr, values |-> "none"]}

\* useAddRow.addRow with a valid row: sheetApi.addRow validates, SheetClient.addRow
\* sends the PUT.
AddRowStart ==
    /\ mut.pc = "idle"
    /\ callCount < MaxCalls
    /\ callCount' = callCount + 1
    /\ mut' = [IdleMut EXCEPT !.pc = "sent", !.op = "addRow"]
    /\ lastCall' = NoCall
    /\ startGap' = -1
    /\ UNCHANGED <<now, ticks, cache, pendingRequests, lastRequestTime, clientCache, calls,
                   lastStart, sheet, httpCount, mutDone, nextCleanup>>

\* The server appends the row, or writes the cell.
ServerWrite ==
    /\ mut.pc = "sent"
    /\ ~MicrotaskPending
    /\ sheet' = sheet + 1
    /\ mut' = [mut EXCEPT !.pc = "written"]
    /\ lastCall' = NoCall
    /\ startGap' = -1
    /\ UNCHANGED <<now, ticks, cache, pendingRequests, lastRequestTime, clientCache, calls,
                   lastStart, httpCount, callCount, mutDone, nextCleanup>>

\* fetch settles for the PUT: SheetClient.addRow invalidates its cache when
\* makeRequest returned, SheetApi.addRow wraps the result, and useAddRow clears
\* the ApiManager's cache on success.
AddRowDeliver(reply) ==
    LET r == makeRequest(reply)
        response == sheetApiAddRow(clientAddRow(r), now)
    IN
    /\ mut.op = "addRow"
    /\ mut.pc \in {"sent", "written"}
    /\ ~MicrotaskPending
    /\ reply.type = "body" /\ reply.success => mut.pc = "written"
    /\ reply.type # "fetchThrows" /\ ~(reply.type = "body" /\ reply.success) => mut.pc = "sent"
    /\ clientCache' = IF r.threw THEN clientCache ELSE Null
    /\ cache' = IF response.success THEN [k \in Keys |-> Null] ELSE cache
    /\ mutDone' = IF response.success THEN sheet ELSE mutDone
    /\ mut' = IdleMut
    /\ lastCall' = NoCall
    /\ startGap' = -1
    /\ UNCHANGED <<now, ticks, pendingRequests, lastRequestTime, calls, lastStart,
                   sheet, httpCount, callCount, nextCleanup>>

\* useUpdateField.updateField up to its first await that leaves the microtask
\* queue: sheetApi.updateField calls SheetClient.updateField, whose
\* findRowByIdentifier calls getAllData().  Rows cached for less than CACHE_TTL
\* answer at once, and the checks either fail (the call resolves with a failure)
\* or pass (the POST is sent); otherwise a GET is sent.
UpdateFieldStart(p) ==
    LET fresh == cacheFresh(clientCache, now) IN
    /\ mut.pc = "idle"
    /\ callCount < MaxCalls
    /\ callCount' = callCount + 1
    /\ IF fresh
       THEN /\ mut' = IF updateFieldChecks(clientCache.data, p) = EmptyStr
                      THEN [IdleMut EXCEPT !.pc = "sent", !.op = "updateField"]
                      ELSE IdleMut
            /\ UNCHANGED httpCount
       ELSE /\ httpCount' = httpCount + 1
            /\ mut' = [pc |-> "get", op |-> "updateField", req |-> httpCount + 1,
                       sentVer |-> sheet]
    /\ lastCall' = NoCall
    /\ startGap' = -1
    /\ UNCHANGED <<now, ticks, cache, pendingRequests, lastRequestTime, clientCache, calls,
                   lastStart, sheet, mutDone, nextCleanup>>

\* fetch settles for the GET of updateField: SheetClient.getAllData caches the
\* rows, and the checks either fail or pass (the POST is sent).  p is the params
\* of the call: nothing depended on them until now.
UpdateFieldRead(reply, ver, p) ==
    LET r == clientGetAllDataResult(reply, mut.req, ver, now) IN
    /\ mut.pc = "get"
    /\ ~MicrotaskPending
    /\ ver \in mut.sentVer..sheet
    /\ clientCache' = IF r.threw THEN clientCache
                      ELSE [data |-> r.value, timestamp |-> now]
    /\ mut' = IF ~r.threw /\ updateFieldChecks(r.value, p) = EmptyStr
              THEN [IdleMut EXCEPT !.pc = "sent", !.op = "updateField"]
              ELSE IdleMut
    /\ lastCall' = NoCall
    /\ startGap' = -1
    /\ UNCHANGED <<now, ticks, cache, pendingRequests, lastRequestTime, calls, lastStart,
                   sheet, httpCount, callCount, mutDone, nextCleanup>>

\* fetch settles for the POST: SheetClient.updateField invalidates its cache when
\* makeRequest returned, SheetApi.updateField wraps the result, and
\* useUpdateField clears the ApiManager's cache on success.
UpdateFieldDeliver(reply) ==
    LET r == makeRequest(reply)
        response == sheetApiUpdateField(clientUpdateFieldPosted(r), now)
    IN
    /\ mut.op = "updateField"
    /\ mut.pc \in {"sent", "written"}
    /\ ~MicrotaskPending
    /\ reply.type = "body" /\ reply.success => mut.pc = "written"
    /\ reply.type # "fetchThrows" /\ ~(reply.type = "body" /\ reply.success) => mut.pc = "sent"
    /\ clientCache' = IF r.threw THEN clientCache ELSE Null
    /\ cache' = IF response.success THEN [k \in Keys |-> Null] ELSE cache
    /\ mutDone' = IF response.success THEN sheet ELSE mutDone
    /\ mut' = IdleMut
    /\ lastCall' = NoCall
    /\ startGap' = -1
    /\ UNCHANGED <<now, ticks, pendingRequests, lastRequestTime, calls, lastStart,
                   sheet, httpCount, callCount, nextCleanup>>

\* sheetApi.getRow / sheetApi.search, called by a hook, up to the request: they
\* call SheetClient.getAllData(), where rows cached for less than CACHE_TTL
\* answer (the call changes nothing), or a GET is sent.
SheetRead(o, op) ==
    /\ ops[o].pc = "idle"
    /\ \A b \in OpSlots : b < o => ops[b].pc # "idle"    \* idle slots are alike: take the first
    /\ callCount < MaxCalls
    /\ callCount' = callCount + 1
    /\ IF cacheFresh(clientCache, now)
       THEN UNCHANGED <<ops, httpCount>>
       ELSE /\ httpCount' = httpCount + 1
            /\ ops' = [ops EXCEPT ![o] = [IdleOp EXCEPT !.pc = "get", !.op = op,
                                                        !.req = httpCount + 1, !.sentVer = sheet]]
    /\ lastCall' = NoCall
    /\ startGap' = -1
    /\ UNCHANGED <<now, ticks, cache, pendingRequests, lastRequestTime, clientCache, calls,
                   lastStart, sheet, mut, mutDone, nextCleanup>>

\* useSheetRow.fetchRow.
FetchRow(o) == SheetRead(o, "getRow")

\* useSearchData.search.
SearchData(o) == SheetRead(o, "search")

\* fetch settles for the GET of a getRow or search: SheetClient.getAllData caches
\* the rows it returns.
SheetReadDeliver(o, reply, ver) ==
    LET r == clientGetAllDataResult(reply, ops[o].req, ver, now) IN
    /\ ops[o].pc = "get"
    /\ ~MicrotaskPending
    /\ ver \in ops[o].sentVer..sheet
    /\ r.threw => ver = sheet                \* no rows: the version read is immaterial
    /\ clientCache' = IF r.threw THEN clientCache
                      ELSE [data |-> r.value, timestamp |-> now]
    /\ ops' = [ops EXCEPT ![o] = IdleOp]
    /\ lastCall' = NoCall
    /\ startGap' = -1
    /\ UNCHANGED <<now, ticks, cache, pendingRequests, lastRequestTime, calls, lastStart,
                   sheet, httpCount, callCount, mut, mutDone, nextCleanup>>

Init == InitMgr /\ InitApi /\ InitOpt /\ InitFn

\* The hooks and the ApiManager; the rest of the state is left alone.  A write
\* starts while the sheet has been written fewer than MaxWrites times.
Next ==
    \/ sheet < MaxWrites /\ AddRowStart /\ UNCHANGED <<apiVars, optVars, fnVars>>
    \/ ServerWrite /\ UNCHANGED <<apiVars, optVars, fnVars>>
    \/ \E reply \in WriteReplies : AddRowDeliver(reply) /\ UNCHANGED <<apiVars, optVars, fnVars>>
    \/ \E c \in Slots, k \in Keys : Fetch(c, k) /\ UNCHANGED <<apiVars, optVars, fnVars>>
    \/ \E c \in Slots, k \in Keys : Refresh(c, k) /\ UNCHANGED <<apiVars, optVars, fnVars>>
    \/ \E c \in Slots : StartRequest(c) /\ UNCHANGED <<apiVars, optVars, fnVars>>
    \/ \E c \in Slots, reply \in GetReplies, ver \in 0..MaxWrites :
          Deliver(c, reply, ver) /\ UNCHANGED <<apiVars, optVars, fnVars>>
    \/ \E d \in Durations : Tick(d) /\ UNCHANGED <<apiVars, optVars, fnVars>>
    \/ ClearCache /\ UNCHANGED <<apiVars, optVars, fnVars>>
    \/ \E k \in Keys : ClearCacheEntry(k) /\ UNCHANGED <<apiVars, optVars, fnVars>>
    \/ Cleanup /\ UNCHANGED <<apiVars, optVars, fnVars>>
    \/ \E p \in UpdateInputs :
          sheet < MaxWrites /\ UpdateFieldStart(p) /\ UNCHANGED <<apiVars, optVars, fnVars>>
    \/ \E reply \in GetReplies, ver \in 0..MaxWrites, p \in UpdateInputs :
          UpdateFieldRead(reply, ver, p) /\ UNCHANGED <<apiVars, optVars, fnVars>>
    \/ \E reply \in WriteReplies : UpdateFieldDeliver(reply) /\ UNCHANGED <<apiVars, optVars, fnVars>>
    \/ \E o \in OpSlots : FetchRow(o) /\ UNCHANGED <<apiCall, optVars, fnVars>>
    \/ \E o \in OpSlots : SearchData(o) /\ UNCHANGED <<apiCall, optVars, fnVars>>
    \/ \E o \in OpSlots, reply \in GetReplies, ver \in 0..MaxWrites :
          SheetReadDeliver(o, reply, ver) /\ UNCHANGED <<apiCall, optVars, fnVars>>

Spec == Init /\ [][Next]_vars

\* ------------------------------------------------- SheetApi, its operations
\* The operations of SheetApi on the SheetClient's cache and the clock.  An
\* operation runs from its call to its first request, and on from the settlement
\* of a request to the next one or to its own settlement; other operations run in
\* between.  (The version of the sheet is not followed here.)
mgrOnly == <<cache, pendingRequests, lastRequestTime, calls, lastCall, lastStart, startGap,
             sheet, mut, mutDone, nextCleanup>>

\* What the PUT or POST of a write can be answered with (a write reads no values).
PostReplies == {reply \in HttpReplies : reply.type = "body" => reply.values = "none"}

\* SheetApi.getAllData / getRow / search around the settled client.getAllData.
readResponse(op, arg, r, t) ==
    CASE op = "getAllData" -> sheetApiGetAllData(r, t)
      [] op = "getRow" -> sheetApiGetRow(getRowById(r, arg), t)
      [] op = "search" -> sheetApiSearch(clientSearch(r, arg), t)

\* One SheetClient.updateField: waiting for its GET, for its POST, or settled.
PartDone(result) == [pc |-> "done", p |-> Null, req |-> 0, result |-> result]
PartFailed(m) == PartDone([success |-> FALSE, error |-> m])

\* SheetClient.updateField once getAllData has returned rows: a check fails, or
\* the POST is sent.
partChecked(rows, p) ==
    IF updateFieldChecks(rows, p) # EmptyStr
    THEN PartFailed(updateFieldChecks(rows, p))
    ELSE [pc |-> "post", p |-> p, req |-> 0, result |-> Null]

\* SheetClient.updateField up to its first request, on the cache entry `cached`.
partStarted(cached, p, req, t) ==
    IF cacheFresh(cached, t)
    THEN partChecked(cached.data, p)
    ELSE [pc |-> "get", p |-> p, req |-> req, result |-> Null]

\* SheetApi.updateField around the settled client.updateField, and
\* SheetApi.bulkUpdate around the settled updateFields of client.bulkUpdate.
writeResponse(op, parts, t) ==
    IF op = "updateField"
    THEN sheetApiUpdateField(parts[1].result, t)
    ELSE sheetApiBulkUpdate([i \in DOMAIN parts |-> parts[i].result], t)

\* The operation in slot o has been called and has not settled.
ApiCalled(o) ==
    /\ ops[o].pc = "idle"
    /\ \A b \in OpSlots : b < o => ops[b].pc # "idle"    \* idle slots are alike: take the first
    /\ callCount < MaxOps
    /\ callCount' = callCount + 1
    /\ UNCHANGED <<clientCache, now, ticks, mgrOnly>>

\* The operation settles with the response out.
ApiSettled(op, sent, reply, out) ==
    apiCall' = [op |-> op, sent |-> sent, reply |-> reply, out |-> out, results |-> << >>]

\* The write settles, its updateFields having settled as `parts`.
ApiWriteSettled(op, parts) ==
    apiCall' = [op |-> op, sent |-> FALSE, reply |-> Null, out |-> writeResponse(op, parts, now),
                results |-> [i \in DOMAIN parts |-> parts[i].result]]

\* A read operation up to its request: the cached rows answer, or a GET is sent.
ApiRead(o, op, arg) ==
    /\ ApiCalled(o)
    /\ IF cacheFresh(clientCache, now)
       THEN /\ ApiSettled(op, FALSE, Null, readResponse(op, arg, Return(clientCache.data), now))
            /\ UNCHANGED <<ops, httpCount>>
       ELSE /\ httpCount' = httpCount + 1
            /\ ops' = [ops EXCEPT ![o] = [IdleOp EXCEPT !.pc = "get", !.op = op, !.arg = arg,
                                                        !.req = httpCount + 1]]
            /\ apiCall' = NoApiCall

ApiGetAllData(o) == ApiRead(o, "getAllData", Null)

ApiGetRow(o, found) == ApiRead(o, "getRow", found)

ApiSearch(o, matches) == ApiRead(o, "search", matches)

\* fetch settles for the GET of a read operation: SheetClient.getAllData caches
\* the rows it returns, and the operation settles.
ApiGetSettles(o, reply) ==
    LET r == clientGetAllDataResult(reply, ops[o].req, sheet, now) IN
    /\ ops[o].pc = "get"
    /\ clientCache' = IF r.threw THEN clientCache ELSE [data |-> r.value, timestamp |-> now]
    /\ ApiSettled(ops[o].op, TRUE, reply, readResponse(ops[o].op, ops[o].arg, r, now))
    /\ ops' = [ops EXCEPT ![o] = IdleOp]
    /\ UNCHANGED <<httpCount, callCount, now, ticks, mgrOnly>>

\* SheetApi.addRow up to its request: validateRowData or formatValue fails, or
\* the PUT is sent.
ApiAddRow(o, errors, badDate) ==
    /\ ApiCalled(o)
    /\ UNCHANGED httpCount
    /\ IF errors # << >> \/ badDate
       THEN /\ ApiSettled("addRow", FALSE, Null,
                  sheetApiAddRowCall(errors, clientAddRowCall(badDate, Null).result, now))
            /\ UNCHANGED ops
       ELSE /\ ops' = [ops EXCEPT ![o] = [IdleOp EXCEPT !.pc = "put", !.op = "addRow"]]
            /\ apiCall' = NoApiCall

\* fetch settles for the PUT of addRow: SheetClient.addRow invalidates the cache
\* when makeRequest returned, and the operation settles.
ApiPutSettles(o, reply) ==
    LET a == clientAddRowCall(FALSE, reply) IN
    /\ ops[o].pc = "put"
    /\ clientCache' = IF a.returned THEN Null ELSE clientCache
    /\ ApiSettled("addRow", FALSE, Null, sheetApiAddRowCall(<< >>, a.result, now))
    /\ ops' = [ops EXCEPT ![o] = IdleOp]
    /\ UNCHANGED <<httpCount, callCount, now, ticks, mgrOnly>>

\* updateField, or bulkUpdate (client.bulkUpdate starts the updateField of every
\* change at once), up to the first requests: each updateField reads the cache
\* as the call finds it and, if that is stale, sends its own GET.
ApiWrite(o, op, changes) ==
    LET parts == [i \in DOMAIN changes |->
                     partStarted(clientCache, changes[i], httpCount + i, now)]
    IN
    /\ ApiCalled(o)
    /\ httpCount' = httpCount + Cardinality({i \in DOMAIN parts : parts[i].pc = "get"})
    /\ IF \A i \in DOMAIN parts : parts[i].pc = "done"
       THEN /\ ApiWriteSettled(op, parts)
            /\ UNCHANGED ops
       ELSE /\ ops' = [ops EXCEPT ![o] = [IdleOp EXCEPT !.pc = "parts", !.op = op,
                                                        !.parts = parts]]
            /\ apiCall' = NoApiCall

ApiUpdateField(o, p) == ApiWrite(o, "updateField", <<p>>)

\* The changes of a bulkUpdate.
Change == {q \in UpdateInputs : q.fieldKnown /\ q.lock = "none" /\ ~q.badDate}
ChangeLists == UNION {[1..n -> Change] : n \in 0..MaxChanges}

ApiBulkUpdate(o, changes) == ApiWrite(o, "bulkUpdate", changes)

\* The updateField i of the operation in slot o has moved on to `part`: the
\* operation settles when all its updateFields have.
ApiPartMoves(o, i, part) ==
    LET parts == [ops[o].parts EXCEPT ![i] = part] IN
    /\ IF \A j \in DOMAIN parts : parts[j].pc = "done"
       THEN /\ ApiWriteSettled(ops[o].op, parts)
            /\ ops' = [ops EXCEPT ![o] = IdleOp]
       ELSE /\ ops' = [ops EXCEPT ![o].parts = parts]
            /\ apiCall' = NoApiCall
    /\ UNCHANGED <<httpCount, callCount, now, ticks, mgrOnly>>

\* fetch settles for the GET of an updateField: SheetClient.getAllData caches the
\* rows it returns; a check fails, or the POST is sent.
ApiPartGetSettles(o, i, reply) ==
    LET part == ops[o].parts[i]
        r == clientGetAllDataResult(reply, part.req, sheet, now)
    IN
    /\ ops[o].pc = "parts"
    /\ i \in DOMAIN ops[o].parts
    /\ part.pc = "get"
    /\ clientCache' = IF r.threw THEN clientCache ELSE [data |-> r.value, timestamp |-> now]
    /\ ApiPartMoves(o, i, IF r.threw THEN PartFailed(r.message) ELSE partChecked(r.value, part.p))

\* fetch settles for the POST of an updateField: SheetClient.updateField
\* invalidates the cache when makeRequest returned.
ApiPartPostSettles(o, i, reply) ==
    LET part == ops[o].parts[i]
        w == makeRequest(reply)
    IN
    /\ ops[o].pc = "parts"
    /\ i \in DOMAIN ops[o].parts
    /\ part.pc = "post"
    /\ clientCache' = IF w.threw THEN clientCache ELSE Null
    /\ ApiPartMoves(o, i, PartDone(clientUpdateFieldPosted(w)))

TickApi(d) ==
    /\ Tick(d)
    /\ apiCall' = NoApiCall
    /\ UNCHANGED ops

\* The ApiManager's interval fires while SheetApi operations are in progress.
CleanupApi ==
    /\ Cleanup
    /\ apiCall' = NoApiCall
    /\ UNCHANGED ops

\* What the requests of an operation can be answered with: every reply for a
\* single updateField, a representative of each path for those of a bulkUpdate.
PartGetReplies(op) == IF op = "updateField" THEN HttpReplies ELSE GetReplies
PartPostReplies(op) == IF op = "updateField" THEN PostReplies ELSE WriteReplies

NextApi ==
    \/ \E o \in OpSlots : ApiGetAllData(o) /\ UNCHANGED <<optVars, fnVars>>
    \/ \E o \in OpSlots, found \in BOOLEAN : ApiGetRow(o, found) /\ UNCHANGED <<optVars, fnVars>>
    \/ \E o \in OpSlots, matches \in 0..1 : ApiSearch(o, matches) /\ UNCHANGED <<optVars, fnVars>>
    \/ \E o \in OpSlots, reply \in HttpReplies :
          ApiGetSettles(o, reply) /\ UNCHANGED <<optVars, fnVars>>
    \/ \E o \in OpSlots, errors \in RowErrors, badDate \in BOOLEAN :
          ApiAddRow(o, errors, badDate) /\ UNCHANGED <<optVars, fnVars>>
    \/ \E o \in OpSlots, reply \in PostReplies :
          ApiPutSettles(o, reply) /\ UNCHANGED <<optVars, fnVars>>
    \/ \E o \in OpSlots, p \in UpdateInputs : ApiUpdateField(o, p) /\ UNCHANGED <<optVars, fnVars>>
    \/ \E o \in OpSlots, changes \in ChangeLists :
          ApiBulkUpdate(o, changes) /\ UNCHANGED <<optVars, fnVars>>
    \/ \E o \in OpSlots, i \in 1..MaxChanges : \E reply \in PartGetReplies(ops[o].op) :
          ApiPartGetSettles(o, i, reply) /\ UNCHANGED <<optVars, fnVars>>
    \/ \E o \in OpSlots, i \in 1..MaxChanges : \E reply \in PartPostReplies(ops[o].op) :
          ApiPartPostSettles(o, i, reply) /\ UNCHANGED <<optVars, fnVars>>
    \/ \E d \in Durations : TickApi(d) /\ UNCHANGED <<optVars, fnVars>>
    \/ CleanupApi /\ UNCHANGED <<optVars, fnVars>>

SpecApi == Init /\ [][NextApi]_vars

\* -------------------------------------------------------- useOptimisticUpdate
\* The optimistic function of update u toggles row u.
optimisticUpdateFn(d, u) == IF u \in d THEN d \ {u} ELSE d \cup {u}

\* What serverUpdateFn() can settle with.
ServerOutcomes ==
    {[type |-> "response", success |-> TRUE, error |-> EmptyStr]}
    \cup {[type |-> "response", success |-> FALSE, error |-> e] : e \in ServerErrors}
    \cup {[type |-> "throws", success |-> FALSE, error |-> <<"Failed to fetch">>]}

\* optimisticUpdate up to its await, through the callback of the last render.
OptimisticUpdate(u) ==
    /\ updates[u].pc = "idle"
    /\ previousDataRef' = renderedData
    /\ optimistic' = [data |-> optimisticUpdateFn(renderedData, u), isUpdating |-> TRUE,
                      error |-> EmptyStr]
    /\ updates' = [updates EXCEPT ![u] = [pc |-> "pending", before |-> renderedData]]
    /\ lastUpdate' = [u |-> u, outcome |-> "called", before |-> renderedData,
                      was |-> optimistic.data]
    /\ UNCHANGED <<renderedData, effect, mgrVars, apiVars, fnVars>>

\* serverUpdateFn() settles for update u: roll back on a failure, and finally
\* setIsUpdating(false).
ServerSettles(u, o) ==
    /\ updates[u].pc = "pending"
    /\ optimistic' = IF o.success
                     THEN [optimistic EXCEPT !.isUpdating = FALSE]
                     ELSE [data |-> previousDataRef, isUpdating |-> FALSE,
                           error |-> Or(o.error, <<"Update failed">>)]
    /\ updates' = [updates EXCEPT ![u].pc = "done"]
    /\ lastUpdate' = [u |-> u, outcome |-> IF o.success THEN "succeeded" ELSE "failed",
                      before |-> updates[u].before, was |-> optimistic.data]
    /\ UNCHANGED <<previousDataRef, renderedData, effect, mgrVars, apiVars, fnVars>>

\* React renders the component with the state it holds (the effects a render
\* left are run before the next render).
Render ==
    /\ ~effect.pending
    /\ renderedData # optimistic.data
    /\ renderedData' = optimistic.data
    /\ lastUpdate' = NoUpdate
    /\ UNCHANGED <<optimistic, previousDataRef, updates, effect, mgrVars, apiVars, fnVars>>

\* reset(): setError(null), when there is an error (without one it changes nothing).
Reset ==
    /\ optimistic.error # EmptyStr
    /\ optimistic' = [optimistic EXCEPT !.error = EmptyStr]
    /\ lastUpdate' = NoUpdate
    /\ UNCHANGED <<previousDataRef, renderedData, updates, effect, mgrVars, apiVars, fnVars>>

\* The component renders with another array d as initialData (the rows of a
\* refetch, or a value its parent builds on every render): the render takes the
\* data the hook holds and leaves the effect of [initialData] to run.
RenderInitialData(d) ==
    /\ ~effect.pending
    /\ renderedData' = optimistic.data
    /\ effect' = [pending |-> TRUE, initialData |-> d]
    /\ lastUpdate' = NoUpdate
    /\ UNCHANGED <<optimistic, previousDataRef, updates, mgrVars, apiVars, fnVars>>

\* The effect of that render runs: setData(initialData).  Until it does, calls
\* of optimisticUpdate and reset and the settlement of a server update go on.
InitialDataEffect ==
    /\ effect.pending
    /\ optimistic' = [optimistic EXCEPT !.data = effect.initialData]
    /\ effect' = NoEffect
    /\ lastUpdate' = NoUpdate
    /\ UNCHANGED <<previousDataRef, renderedData, updates, mgrVars, apiVars, fnVars>>

NextOpt ==
    \/ \E u \in Updates : OptimisticUpdate(u)
    \/ \E u \in Updates, o \in ServerOutcomes : ServerSettles(u, o)
    \/ Render
    \/ Reset
    \/ \E d \in SUBSET Updates : RenderInitialData(d)
    \/ InitialDataEffect

SpecOpt == Init /\ [][NextOpt]_vars


\* ------------------------------------------------------- smartTypeConversion
\* The function applied to a cell and a column name.
ConvValues == {<<>>, <<" ">>, <<"y", "e", "s">>, <<"Y", "e", "s">>, <<" ", "n", "o", " ">>, <<"1">>, <<"0">>, <<"d", "o", "n", "e">>, <<"A", "l", "i", "c", "e">>, <<" ", "B", "o", "b", " ">>, <<"t", "r", "u", "e">>, <<"m", "a", "y", "b", "e">>, <<"N">>, <<"4", "2">>, <<"a", "c", "t", "i", "v", "e">>}
ConvColumns == {<<"N", "a", "m", "e">>, <<"D", "o", "n", "e">>, <<"S", "t", "a", "t", "u", "s">>, <<"i", "s", "A", "c", "t", "i", "v", "e">>, <<"Q", "u", "a", "n", "t", "i", "t", "y">>, <<"V", "i", "s", "i", "t", "e", "d", " ", "o", "n">>, <<"N", "o", "t", "e", "s">>}
ConvInputs == [fn : {"smartTypeConversion"}, value : ConvValues, columnName : ConvColumns]

InitConv == InitMgr /\ InitApi /\ InitOpt /\ fnIn \in ConvInputs /\ fnOut = NotRun

SmartTypeConversion ==
    /\ fnIn.fn = "smartTypeConversion" /\ fnOut = NotRun
    /\ fnOut' = [fn |-> "smartTypeConversion",
                 value |-> smartTypeConversion(fnIn.value, fnIn.columnName)]
    /\ UNCHANGED <<fnIn, mgrVars, apiVars, optVars>>

NextConv == SmartTypeConversion

SpecConv == InitConv /\ [][NextConv]_vars

\* ---------------------------------------------------- transformRawDataToRows
\* The function applied to the values of a sheet.
SeqsUpTo(set, n) == UNION {[1..k -> set] : k \in 0..n}
RowCells == {<<>>, <<"a">>, <<"b">>, <<"r", "o", "w", "_", "2">>, <<"y", "e", "s">>}
SheetHeaderRow == <<<<"N", "a", "m", "e">>, <<"D", "o", "n", "e">>>>
RawRows == SeqsUpTo(RowCells, NCols)
RawSheets == {<< >>} \cup {<<SheetHeaderRow>> \o rows : rows \in SeqsUpTo(RawRows, MaxRows)}
RowsInputs == [fn : {"transformRawDataToRows"}, rawData : RawSheets,
               headers : {<< >>, SheetHeaderRow, <<<<"N", "a", "m", "e">>, IdKey>>,
                          <<RowIndexKey, <<"D", "o", "n", "e">>>>}]

InitRows == InitMgr /\ InitApi /\ InitOpt /\ fnIn \in RowsInputs /\ fnOut = NotRun

TransformRawDataToRows ==
    /\ fnIn.fn = "transformRawDataToRows" /\ fnOut = NotRun
    /\ fnOut' = [fn |-> "transformRawDataToRows",
                 rows |-> rowsOfRawData(fnIn.rawData, fnIn.headers)]
    /\ UNCHANGED <<fnIn, mgrVars, apiVars, optVars>>

NextRows == TransformRawDataToRows

SpecRows == InitRows /\ [][NextRows]_vars

\* ------------------------------------------- the SheetClient on a sheet's cells
\* The sheet holds the values fnIn.rawData and the configuration has the headers
\* fnIn.headers.  The page reads the sheet in slot 2 of the operations and makes
\* the call under study in slot 1.

\* What the GET of the sheet can be answered with: the request fails, or the body
\* carries the sheet's values.
SheetGetReplies ==
    {[type |-> "fetchThrows"],
     [type |-> "body", success |-> TRUE, error |-> EmptyStr, values |-> fnIn.rawData]}

\* SheetClient.getAllData after makeRequest has settled, on the cells: the rows
\* it returns (and caches), or the error it throws.
clientGetAllDataRows(reply, headers) ==
    LET r == makeRequest(reply) IN
    IF r.threw THEN r
    ELSE IF Len(r.value.values) = 0
         THEN Throw(<<"No data found in the specified sheet. Please check your sheet ID and ensure the sheet contains data.">>)
         ELSE Return(rowsOfRawData(r.value.values, headers))

\* SheetClient.getAllData, called by the page (once), up to the request: rows
\* cached for less than CACHE_TTL answer, or a GET is sent.
LoadSheet ==
    /\ ops[2].pc = "idle"
    /\ callCount = 0
    /\ callCount' = 1
    /\ IF cacheFresh(clientCache, now)
       THEN UNCHANGED <<ops, httpCount>>
       ELSE /\ httpCount' = httpCount + 1
            /\ ops' = [ops EXCEPT ![2] = [IdleOp EXCEPT !.pc = "get", !.op = "getAllData",
                                                        !.req = httpCount + 1]]
    /\ UNCHANGED <<now, ticks, cache, pendingRequests, lastRequestTime, clientCache, calls,
                   lastCall, lastStart, startGap, sheet, mut, mutDone, nextCleanup,
                   apiCall, optVars, fnVars>>

\* fetch settles for the GET of the page's getAllData, which caches the rows.
LoadSheetSettles(reply) ==
    LET r == clientGetAllDataRows(reply, fnIn.headers) IN
    /\ ops[2].pc = "get"
    /\ clientCache' = IF r.threw THEN clientCache ELSE [data |-> r.value, timestamp |-> now]
    /\ ops' = [ops EXCEPT ![2] = IdleOp]
    /\ UNCHANGED <<now, ticks, cache, pendingRequests, lastRequestTime, calls, lastCall,
                   lastStart, startGap, sheet, httpCount, callCount, mut, mutDone, nextCleanup,
                   apiCall, optVars, fnVars>>

\* The cached rows age by CACHE_TTL.
TickSheet ==
    /\ clientCache # Null
    /\ Tick(CACHE_TTL)
    /\ UNCHANGED <<apiVars, optVars, fnVars>>

\* ------------------------------------------------- updateField: the A1 range
\* SheetClient.updateField (no oldValue, a new value of a text column) on the sheet.
WideHeaders == [i \in 1..27 |-> <<"c">> \o numberToString(i)]
RangeCells == {<< >>, <<"a">>, <<"b">>}
RangeSheets ==
    {<< >>} \cup {<<SheetHeaderRow>> \o rows :
                    rows \in SeqsUpTo(SeqsUpTo(RangeCells, NCols), MaxRows)}
RangeInputs ==
    [fn : {"updateField"}, rawData : RangeSheets, headers : {SheetHeaderRow, WideHeaders},
     identifier : {Str(<<"a">>), Str(<<"b">>), Str(<<"r", "o", "w", "_", "2">>), Num(2)},
     field : {<<"N", "a", "m", "e">>, <<"D", "o", "n", "e">>, <<"c", "2", "6">>, <<"c", "2", "7">>, <<"M", "i", "s", "s", "i", "n", "g">>}]

InitRange == InitMgr /\ InitApi /\ InitOpt /\ fnIn \in RangeInputs /\ fnOut = NotRun

\* SheetClient.updateField once findRowByIdentifier's getAllData has settled with
\* r: it throws (and returns the failure), or sends the POST to the range.
UpdateFieldFound(r) ==
    LET result == IF r.threw THEN r
                  ELSE updateFieldRange(r.value, fnIn.headers, fnIn.identifier, fnIn.field)
    IN IF result.threw
       THEN /\ fnOut' = [fn |-> "updateField", result |-> result,
                         response |-> [success |-> FALSE, error |-> result.message]]
            /\ ops' = [ops EXCEPT ![1] = IdleOp]
       ELSE /\ fnOut' = [fn |-> "updateField", result |-> result, response |-> Null]
            /\ ops' = [ops EXCEPT ![1] = [IdleOp EXCEPT !.pc = "post", !.op = "updateField"]]

\* SheetClient.updateField up to its first request: the GET of getAllData, or,
\* on rows cached for less than CACHE_TTL, the POST.
UpdateFieldCall ==
    /\ fnOut = NotRun
    /\ ops[1].pc = "idle"
    /\ IF cacheFresh(clientCache, now)
       THEN UpdateFieldFound(Return(clientCache.data)) /\ UNCHANGED httpCount
       ELSE /\ httpCount' = httpCount + 1
            /\ ops' = [ops EXCEPT ![1] = [IdleOp EXCEPT !.pc = "get", !.op = "updateField",
                                                        !.req = httpCount + 1]]
            /\ UNCHANGED fnOut
    /\ UNCHANGED <<now, ticks, cache, pendingRequests, lastRequestTime, clientCache, calls,
                   lastCall, lastStart, startGap, sheet, callCount, mut, mutDone, nextCleanup,
                   apiCall, optVars, fnIn>>

\* fetch settles for the GET of updateField: getAllData caches the rows.
UpdateFieldGetSettles(reply) ==
    LET r == clientGetAllDataRows(reply, fnIn.headers) IN
    /\ ops[1].pc = "get"
    /\ clientCache' = IF r.threw THEN clientCache ELSE [data |-> r.value, timestamp |-> now]
    /\ UpdateFieldFound(r)
    /\ UNCHANGED <<now, ticks, cache, pendingRequests, lastRequestTime, calls, lastCall,
                   lastStart, startGap, sheet, httpCount, callCount, mut, mutDone, nextCleanup,
                   apiCall, optVars, fnIn>>

\* fetch settles for the POST of updateField: the cache is invalidated when
\* makeRequest returned.
UpdateFieldPostSettles(reply) ==
    LET w == makeRequest(reply) IN
    /\ ops[1].pc = "post"
    /\ clientCache' = IF w.threw THEN clientCache ELSE Null
    /\ fnOut' = [fnOut EXCEPT !.response = clientUpdateFieldPosted(w)]
    /\ ops' = [ops EXCEPT ![1] = IdleOp]
    /\ UNCHANGED <<now, ticks, cache, pendingRequests, lastRequestTime, calls, lastCall,
                   lastStart, startGap, sheet, httpCount, callCount, mut, mutDone, nextCleanup,
                   apiCall, optVars, fnIn>>

NextRange ==
    \/ LoadSheet
    \/ \E reply \in SheetGetReplies : LoadSheetSettles(reply)
    \/ TickSheet
    \/ UpdateFieldCall
    \/ \E reply \in SheetGetReplies : UpdateFieldGetSettles(reply)
    \/ \E reply \in WriteReplies : UpdateFieldPostSettles(reply)

SpecRange == InitRange /\ [][NextRange]_vars

\* ------------------------------------------- updateField: the optimistic lock
\* One cell of the sheet, edited by this client and by another user.  Every
\* edit gives the cell a new value, so the value of the cell is the version of
\* the sheet, and rows read at version v hold v in the cell.  The API is
\* reachable and the sheet has the row: every GET is answered with the rows, every
\* POST with success.  The page loads the rows through the ApiManager
\* (useSheetData) and updates the cell through useUpdateField.
RowsReply == [type |-> "body", success |-> TRUE, error |-> EmptyStr, values |-> "rows"]
PostOk == [type |-> "body", success |-> TRUE, error |-> EmptyStr, values |-> "none"]
LockVersions == 0..(MaxWrites + MaxCalls)

InitLock == Init

\* Another user edits the cell in Google Sheets.
OtherUserEdits ==
    /\ sheet < MaxWrites
    /\ ~MicrotaskPending
    /\ sheet' = sheet + 1
    /\ lastCall' = NoCall
    /\ startGap' = -1
    /\ UNCHANGED <<now, ticks, cache, pendingRequests, lastRequestTime, clientCache, calls,
                   lastStart, httpCount, callCount, mut, mutDone, nextCleanup,
                   fnVars, apiVars, optVars>>

\* The way of updateField through its checks when the rows hold cellValue in the
\* cell: the row and the field exist, and oldValue is compared with the cell.
lockInput(cellValue, oldValue) ==
    [found |-> TRUE, fieldKnown |-> TRUE, badDate |-> FALSE,
     lock |-> IF cellValue # oldValue THEN "stale" ELSE "ok"]

\* What updateField has resolved to, for the call `call`: its oldValue, the value
\* the cell held in the sheet at the call (cellValue) and the one it held when
\* updateField compared the rows with oldValue (checkedValue).
lockOutcome(call, posted, result) ==
    [fn |-> "updateFieldLocked", oldValue |-> call.oldValue, cellValue |-> call.cellValue,
     checkedValue |-> call.checkedValue,
     posted |-> posted, response |-> sheetApiUpdateField(result, now)]

\* updateField({identifier, field, newValue, oldValue}) is called: cached rows
\* are compared with oldValue at once, or the GET is sent.
LockUpdateField(oldValue) ==
    LET call == [fn |-> "updateFieldLocked", oldValue |-> oldValue, cellValue |-> sheet,
                 checkedValue |-> sheet]
        p == lockInput(IF clientCache = Null THEN 0 ELSE clientCache.data.ver, oldValue)
    IN
    /\ UpdateFieldStart(p)
    /\ fnIn' = call
    /\ fnOut' = IF cacheFresh(clientCache, now) /\ updateFieldChecks(clientCache.data, p) # EmptyStr
                THEN lockOutcome(call, FALSE,
                                 [success |-> FALSE, error |-> updateFieldChecks(clientCache.data, p)])
                ELSE NotRun
    /\ UNCHANGED <<apiVars, optVars>>

\* fetch settles for the GET of updateField with rows of version ver: they are
\* compared with oldValue.
LockUpdateFieldRead(ver) ==
    LET p == lockInput(ver, fnIn.oldValue)
        rows == clientGetAllDataResult(RowsReply, mut.req, ver, now).value
        call == [fnIn EXCEPT !.checkedValue = sheet]
    IN
    /\ UpdateFieldRead(RowsReply, ver, p)
    /\ fnIn' = call
    /\ fnOut' = IF updateFieldChecks(rows, p) # EmptyStr
                THEN lockOutcome(call, FALSE,
                                 [success |-> FALSE, error |-> updateFieldChecks(rows, p)])
                ELSE NotRun
    /\ UNCHANGED <<apiVars, optVars>>

\* fetch settles for the POST of updateField: the cell has been written.
LockUpdateFieldDeliver ==
    /\ UpdateFieldDeliver(PostOk)
    /\ fnOut' = lockOutcome(fnIn, TRUE, clientUpdateFieldPosted(makeRequest(PostOk)))
    /\ UNCHANGED <<fnIn, apiVars, optVars>>

NextLock ==
    \/ OtherUserEdits
    \/ \E c \in Slots : Fetch(c, "getAllData") /\ UNCHANGED <<apiVars, optVars, fnVars>>
    \/ \E c \in Slots : StartRequest(c) /\ UNCHANGED <<apiVars, optVars, fnVars>>
    \/ \E c \in Slots, ver \in LockVersions :
          Deliver(c, RowsReply, ver) /\ UNCHANGED <<apiVars, optVars, fnVars>>
    \/ \E oldValue \in 0..MaxWrites : LockUpdateField(oldValue)
    \/ \E ver \in LockVersions : LockUpdateFieldRead(ver)
    \/ ServerWrite /\ UNCHANGED <<apiVars, optVars, fnVars>>
    \/ LockUpdateFieldDeliver
    \/ \E d \in Durations : Tick(d) /\ UNCHANGED <<apiVars, optVars, fnVars>>
    \/ Cleanup /\ UNCHANGED <<apiVars, optVars, fnVars>>

SpecLock == InitLock /\ [][NextLock]_vars

\* ----------------------------------------------------- addRow: validation
\* The configuration: six columns, one of each type (the type of the first is
\* configured as the empty string).
ConfigHeaders == <<<<"N", "a", "m", "e">>, <<"E", "m", "a", "i", "l">>, <<"A", "g", "e">>, <<"J", "o", "i", "n", "e", "d">>, <<"S", "i", "t", "e">>, <<"D", "o", "n", "e">>>>
ConfigDataTypes ==
    (<<"N", "a", "m", "e">> :> << >>) @@ (<<"E", "m", "a", "i", "l">> :> <<"e", "m", "a", "i", "l">>) @@ (<<"A", "g", "e">> :> <<"n", "u", "m", "b", "e", "r">>) @@ (<<"J", "o", "i", "n", "e", "d">> :> <<"d", "a", "t", "e">>)
        @@ (<<"S", "i", "t", "e">> :> <<"u", "r", "l">>) @@ (<<"D", "o", "n", "e">> :> <<"b", "o", "o", "l", "e", "a", "n">>)
Absent == [absent |-> TRUE]
ColumnValues ==
    <<{Absent, Str(<< >>), Str(<<" ">>), Str(<<"A", "l">>), Num(0)},
      {Absent, Str(<< >>), Str(<<"a", "@", "b", ".", "c">>), Str(<<"a", "@", "b">>)},
      {Absent, Str(<<"1", "2">>), Str(<<"1", "x">>), Num(7)},
      {Absent, Str(<<"2", "0", "2", "4", "-", "0", "1", "-", "1", "5">>), Str(<<"s", "o", "o", "n">>),
       Str(<<"1", "3">>), Str(<<"J", "a", "n", " ", "1", " ", "2", "0", "2", "4">>),
       Str(<<"J", "a", "n", " ", "2", "0", "2", "4">>), Num(7), Num(0)},
      {Absent, Str(<<"h", "t", "t", "p", "s", ":", "/", "/", "a", ".", "b">>), Str(<<"a", ".", "b">>)},
      {Absent, Str(<<"y", "e", "s">>), Str(<<"m", "a", "y", "b", "e">>), Bool(TRUE)}>>
RowObjects ==
    {LET present(e) == e.value # Absent IN
     SelectSeq([c \in DOMAIN ConfigHeaders |-> [field |-> ConfigHeaders[c], value |-> ch[c]]], present) :
        ch \in {<<v1, v2, v3, v4, v5, v6>> :
                   v1 \in ColumnValues[1], v2 \in ColumnValues[2], v3 \in ColumnValues[3],
                   v4 \in ColumnValues[4], v5 \in ColumnValues[5], v6 \in ColumnValues[6]}}
AddRowInputs == {[fn |-> "addRow", data |-> d, reply |-> r] : d \in RowObjects, r \in WriteReplies}

InitValidate == InitMgr /\ InitApi /\ InitOpt /\ fnIn \in AddRowInputs /\ fnOut = NotRun

\* The page loads the rows (sheetApi.getAllData, answered with rows), so that
\* SheetClient holds them.
ValidateLoad(o) ==
    /\ ApiGetAllData(o)
    /\ fnOut' = NotRun
    /\ UNCHANGED <<fnIn, optVars>>

ValidateLoadSettles(o) ==
    /\ ApiGetSettles(o, RowsReply)
    /\ fnOut' = NotRun
    /\ UNCHANGED <<fnIn, optVars>>

\* What addRow has resolved to, with the cache and the number of requests sent
\* as the call found them.
addRowOutcome(response, before) ==
    [fn |-> "addRow", response |-> response, cacheBefore |-> before.cacheBefore,
     requestsBefore |-> before.requestsBefore]

\* sheetApi.addRow(data) up to its request: it resolves without one, or the PUT
\* is sent.
ValidateAddRow(o) ==
    LET a == sheetApiAddRowOf(fnIn.data, ConfigHeaders, ConfigDataTypes, fnIn.reply, now)
        before == [cacheBefore |-> clientCache, requestsBefore |-> httpCount]
    IN
    /\ fnIn.fn = "addRow"
    /\ ApiCalled(o)
    /\ IF a.put
       THEN /\ httpCount' = httpCount + 1
            /\ ops' = [ops EXCEPT ![o] = [IdleOp EXCEPT !.pc = "put", !.op = "addRow",
                                                        !.arg = before]]
            /\ fnOut' = NotRun
       ELSE /\ fnOut' = addRowOutcome(a.response, before)
            /\ UNCHANGED <<httpCount, ops>>
    /\ UNCHANGED <<apiCall, fnIn, optVars>>

\* fetch settles for the PUT of addRow.
ValidatePutSettles(o) ==
    LET a == sheetApiAddRowOf(fnIn.data, ConfigHeaders, ConfigDataTypes, fnIn.reply, now) IN
    /\ ops[o].pc = "put"
    /\ clientCache' = IF a.invalidated THEN Null ELSE clientCache
    /\ fnOut' = addRowOutcome(a.response, ops[o].arg)
    /\ ops' = [ops EXCEPT ![o] = IdleOp]
    /\ UNCHANGED <<httpCount, callCount, now, ticks, mgrOnly, apiCall, fnIn, optVars>>

NextValidate ==
    \/ \E o \in OpSlots : ValidateLoad(o)
    \/ \E o \in OpSlots : ValidateLoadSettles(o)
    \/ \E o \in OpSlots : ValidateAddRow(o)
    \/ \E o \in OpSlots : ValidatePutSettles(o)

SpecValidate == InitValidate /\ [][NextValidate]_vars

\* -------------------------------------------------- bulkUpdate: accounting
\* The changes of the bulkUpdate, every way through updateField.
BulkInputs == {[fn |-> "bulkUpdate", changes |-> c] :
                  c \in UNION {[1..n -> UpdateInputs] : n \in 0..MaxChanges}}

InitBulk == InitMgr /\ InitApi /\ InitOpt /\ fnIn \in BulkInputs /\ fnOut = NotRun

\* sheetApi.bulkUpdate(changes) is called.
BulkUpdate(o) ==
    /\ fnIn.fn = "bulkUpdate"
    /\ ApiBulkUpdate(o, fnIn.changes)

\* The rows may be loaded (sheetApi.getAllData, answered with rows); the GET and
\* the POST of each updateField of the bulkUpdate settle.
NextBulk ==
    \/ \E o \in OpSlots : ApiGetAllData(o) /\ UNCHANGED <<optVars, fnVars>>
    \/ \E o \in OpSlots : ApiGetSettles(o, RowsReply) /\ UNCHANGED <<optVars, fnVars>>
    \/ \E o \in OpSlots : BulkUpdate(o) /\ UNCHANGED <<optVars, fnVars>>
    \/ \E o \in OpSlots, i \in 1..MaxChanges, reply \in GetReplies :
          ApiPartGetSettles(o, i, reply) /\ UNCHANGED <<optVars, fnVars>>
    \/ \E o \in OpSlots, i \in 1..MaxChanges, reply \in WriteReplies :
          ApiPartPostSettles(o, i, reply) /\ UNCHANGED <<optVars, fnVars>>

SpecBulk == InitBulk /\ [][NextBulk]_vars

\* ------------------------------------------------------ the sheet as it is
\* The sheet and the API stay as they are: every GET gets the same reply.  The
\* page checks the connection and loads the data through the ApiManager
\* (useQuickConnectionStatus, useConnectionTest.runQuickTest, useSheetData), and
\* connectionTester.quickTest() is run; time passes in between.
SheetInputs == {[fn |-> "sheet", reply |-> r] : r \in HttpReplies}

InitEmpty == InitMgr /\ InitApi /\ InitOpt /\ fnIn \in SheetInputs /\ fnOut = NotRun

\* fetch settles for the GET of call c with the reply of the sheet.
EmptyDeliver(c) == Deliver(c, fnIn.reply, sheet)

\* connectionTester.quickTest() up to its await: the GET is sent.
EmptyQuickTest ==
    /\ fnOut.fn # "quickTestSent"
    /\ callCount < MaxCalls
    /\ callCount' = callCount + 1
    /\ httpCount' = httpCount + 1
    /\ fnOut' = [fn |-> "quickTestSent"]
    /\ UNCHANGED <<now, ticks, mgrOnly, clientCache, fnIn, apiVars, optVars>>

\* fetch settles for the GET of connectionTester.quickTest().
EmptyQuickTestSettles ==
    /\ fnOut.fn = "quickTestSent"
    /\ ~MicrotaskPending
    /\ fnOut' = [fn |-> "quickTest", result |-> connectionQuickTest(fnIn.reply)]
    /\ UNCHANGED <<mgrVars, fnIn, apiVars, optVars>>

NextEmpty ==
    \/ \E c \in Slots, k \in Keys : Fetch(c, k) /\ UNCHANGED <<apiVars, optVars, fnVars>>
    \/ \E c \in Slots : StartRequest(c) /\ UNCHANGED <<apiVars, optVars, fnVars>>
    \/ \E c \in Slots : EmptyDeliver(c) /\ UNCHANGED <<apiVars, optVars, fnVars>>
    \/ EmptyQuickTest
    \/ EmptyQuickTestSettles
    \/ \E d \in Durations : Tick(d) /\ UNCHANGED <<apiVars, optVars, fnVars>>
    \/ Cleanup /\ UNCHANGED <<apiVars, optVars, fnVars>>

SpecEmpty == InitEmpty /\ [][NextEmpty]_vars

\* ------------------------------------------------------------------ search
\* sheetApi.search(query) on a sheet with the columns Name and Score: no values
\* at all, one data row of any cells, or up to MaxRows rows of two of the cells.
SearchHeaders == <<<<"N", "a", "m", "e">>, <<"S", "c", "o", "r", "e">>>>
SearchCells == {<< >>, <<"A", "l">>, <<"a", "l">>, <<"5">>, <<"1", "0">>, <<"0">>}
PairCells == {<<"a", "l">>, <<"5">>}
SearchSheets ==
    {<< >>} \cup {<<SearchHeaders>> \o rows :
                    rows \in SeqsUpTo([DOMAIN SearchHeaders -> SearchCells], 1)
                             \cup SeqsUpTo([DOMAIN SearchHeaders -> PairCells], MaxRows)}
SearchQueries ==
    [field : {<<"N", "a", "m", "e">>, <<"S", "c", "o", "r", "e">>, <<"M", "i", "s", "s", "i", "n", "g">>},
     value : {Str(<<"a", "l">>), Str(<< >>), Str(<<"5">>), Num(5), Num(0), Bool(FALSE)},
     operator : {"equals", "contains", "startsWith", "greaterThan", "lessThan", "undefined"}]
SearchInputs == [fn : {"search"}, rawData : SearchSheets, headers : {SearchHeaders},
                 query : SearchQueries]

InitSearch == InitMgr /\ InitApi /\ InitOpt /\ fnIn \in SearchInputs /\ fnOut = NotRun

\* SheetApi.search once the getAllData of SheetClient.search has settled with r.
SearchFound(r) ==
    /\ fnOut' = IF r.threw
                THEN [fn |-> "searchFailed", response |-> sheetApiSearch(r, now)]
                ELSE [fn |-> "search", allData |-> r.value,
                      rows |-> filterData(r.value, fnIn.query)]
    /\ ops' = [ops EXCEPT ![1] = IdleOp]

\* sheetApi.search up to the request: rows cached for less than CACHE_TTL are
\* filtered, or the GET of getAllData is sent.
Search ==
    /\ fnOut = NotRun
    /\ ops[1].pc = "idle"
    /\ IF cacheFresh(clientCache, now)
       THEN SearchFound(Return(clientCache.data)) /\ UNCHANGED httpCount
       ELSE /\ httpCount' = httpCount + 1
            /\ ops' = [ops EXCEPT ![1] = [IdleOp EXCEPT !.pc = "get", !.op = "search",
                                                        !.req = httpCount + 1]]
            /\ UNCHANGED fnOut
    /\ UNCHANGED <<now, ticks, cache, pendingRequests, lastRequestTime, clientCache, calls,
                   lastCall, lastStart, startGap, sheet, callCount, mut, mutDone, nextCleanup,
                   apiCall, optVars, fnIn>>

\* fetch settles for the GET of search: getAllData caches the rows.
SearchGetSettles(reply) ==
    LET r == clientGetAllDataRows(reply, fnIn.headers) IN
    /\ ops[1].pc = "get"
    /\ clientCache' = IF r.threw THEN clientCache ELSE [data |-> r.value, timestamp |-> now]
    /\ SearchFound(r)
    /\ UNCHANGED <<now, ticks, cache, pendingRequests, lastRequestTime, calls, lastCall,
                   lastStart, startGap, sheet, httpCount, callCount, mut, mutDone, nextCleanup,
                   apiCall, optVars, fnIn>>

NextSearch ==
    \/ LoadSheet
    \/ \E reply \in SheetGetReplies : LoadSheetSettles(reply)
    \/ TickSheet
    \/ Search
    \/ \E reply \in SheetGetReplies : SearchGetSettles(reply)

SpecSearch == InitSearch /\ [][NextSearch]_vars

\* -------------------------------------------------------------- runFullTest
\* connectionTester.runFullTest(): the call, then for each test that fetches
\* one action that sends its GET and one for the answer, and one for the result;
\* fnOut.ran is the tests run so far, in order, and ops[1] the test that waits
\* for its GET.
TestConfigs ==
    [apiBaseUrl : {<<"h", "t", "t", "p", ":", "/", "/", "h", "/", "a", "p", "i", "/", "v", "1">>, <<"h", "/", "a", "p", "i", "/", "v", "1">>},
     apiKey : {<< >>, <<"s", "k", "_", "1">>, <<"p", "k", "_", "1">>},
     sheetId : {<< >>, <<"s", "1">>},
     headers : {<< >>, <<<<"N", "a", "m", "e">>>>}]
FullTestInputs == [fn : {"runFullTest"}, config : TestConfigs]

InitFull == InitMgr /\ InitApi /\ InitOpt /\ fnIn \in FullTestInputs /\ fnOut = NotRun

Running(k) == fnOut.fn = "runFullTest" /\ ~fnOut.done /\ Len(fnOut.ran) = k

\* The microtask queue runs: runFullTest goes on to the test `key`, which sends
\* its GET and waits at await fetch.
TestSends(key) ==
    /\ ops[1].pc = "idle"
    /\ httpCount' = httpCount + 1
    /\ ops' = [ops EXCEPT ![1] = [IdleOp EXCEPT !.pc = "get", !.op = key, !.req = httpCount + 1]]
    /\ UNCHANGED <<fnVars, callCount, now, ticks, clientCache, mgrOnly, apiCall, optVars>>

\* fetch settles for the GET of the test `key`: the test returns its result.
Ran(key, test) ==
    /\ ops[1].pc = "get" /\ ops[1].op = key
    /\ ops' = [ops EXCEPT ![1] = IdleOp]
    /\ fnOut' = [fnOut EXCEPT !.ran = Append(@, key), !.tests = Append(@, test)]
    /\ UNCHANGED <<fnIn, mgrVars, apiCall, optVars>>

RunTestConfiguration ==
    /\ fnIn.fn = "runFullTest" /\ fnOut = NotRun
    /\ fnOut' = [fn |-> "runFullTest", ran |-> <<"configValidation">>,
                 tests |-> <<testConfiguration(fnIn.config)>>, done |-> FALSE, result |-> Null]
    /\ UNCHANGED <<fnIn, mgrVars, apiVars, optVars>>
SendTestApiReachability == Running(1) /\ TestSends("apiReachability")
RunTestApiReachability(reply) == Running(1) /\ Ran("apiReachability", testApiReachability(reply))
SendTestAuthentication == Running(2) /\ TestSends("authentication")
RunTestAuthentication(reply) == Running(2) /\ Ran("authentication", testAuthentication(reply))
SendTestSheetAccess == Running(3) /\ TestSends("sheetAccess")
RunTestSheetAccess(reply) == Running(3) /\ Ran("sheetAccess", testSheetAccess(reply))
SendTestDataRetrieval == Running(4) /\ TestSends("dataRetrieval")
RunTestDataRetrieval(reply) == Running(4) /\ Ran("dataRetrieval", testDataRetrieval(reply))
RunFullTestReturns ==
    /\ Running(5)
    /\ fnOut' = [fnOut EXCEPT !.done = TRUE, !.result = fullTestResult(fnOut.tests)]
    /\ UNCHANGED <<fnIn, mgrVars, apiVars, optVars>>

NextFull ==
    \/ RunTestConfiguration
    \/ SendTestApiReachability
    \/ \E reply \in TestReplies : RunTestApiReachability(reply)
    \/ SendTestAuthentication
    \/ \E reply \in TestReplies : RunTestAuthentication(reply)
    \/ SendTestSheetAccess
    \/ \E reply \in TestReplies : RunTestSheetAccess(reply)
    \/ SendTestDataRetrieval
    \/ \E reply \in TestReplies : RunTestDataRetrieval(reply)
    \/ RunFullTestReturns

SpecFull == InitFull /\ [][NextFull]_vars

\* ===================================================== ApiManager: claims

\* Calls for key k that have passed the pending check without a result yet: each
\* of them invokes (or has invoked) sheetApi.getAllData on its own.
OwnRequests(k) ==
    {c \in Slots : calls[c].kind = k /\ calls[c].pc \in {"resume", "rateWait", "awaitOwn"}}

\* C1 (as claimed): calls for one cache key that start while no valid entry is
\* cached and before the first call's response has arrived share one underlying
\* request: never do two calls for the same key each go on to their own request,
\* and never are two requests for the same key in flight.
C1_Deduplication == \A k \in Keys : Cardinality(OwnRequests(k)) <= 1

\* C2: a call that finds an entry no older than its TTL (30 000 ms for getAllData,
\* 10 000 ms for quickTest) returns it without any request; a call that finds an
\* older entry removes it and does not return it (it goes on to await a request);
\* and no response is ever returned from the cache at an age above its TTL.
C2_CacheTTL ==
    /\ [](lastCall.cachedAt # -1 => now - lastCall.cachedAt <= ttlOf(lastCall.kind))
    /\ [][\A c \in Slots, k \in Keys :
            Fetch(c, k) =>
               LET e == cache[k] IN
               IF e # Null /\ now - e.timestamp <= ttlOf(k)
               THEN /\ lastCall'.kind = k
                    /\ lastCall'.result = e.data
                    /\ lastCall'.cachedAt = e.timestamp
                    /\ UNCHANGED <<cache, calls, pendingRequests, httpCount, lastStart>>
               ELSE /\ lastCall' = NoCall
                    /\ cache'[k] = Null
                    /\ calls'[c].kind = k
                    /\ calls'[c].pc \in {"awaitPending", "rateWait", "resume"}]_vars

\* C2 witness: a call found an expired entry, removed it and has a GET in flight.
C2_Witness ==
    \E c \in Slots : calls[c].evicted /\ calls[c].pc = "awaitOwn" /\ cache[calls[c].kind] = Null

\* C3 (as claimed): a getAllData call made by refresh, right after clearCache,
\* returns rows of a GET that was sent after the cache was cleared.
C3_ClearCacheForcesFresh ==
    (lastCall.kind = "getAllData" /\ lastCall.fence >= 0 /\ lastCall.result.success)
        => lastCall.result.data.req > lastCall.fence

\* C4 (as claimed): two consecutive underlying requests of the ApiManager start at
\* least MIN_REQUEST_INTERVAL apart.
C4_RateLimit == startGap = -1 \/ startGap >= MIN_REQUEST_INTERVAL

\* C5 (as claimed): a getAllData call that starts after addRow or updateField has resolved with
\* success returns rows that the server read after it appended the row.
C5_FreshAfterMutation ==
    (lastCall.kind = "getAllData" /\ lastCall.result.success)
        => lastCall.result.data.ver >= lastCall.minVer

\* Rows that a GET of this behaviour delivered.
FromHttp(rows) ==
    /\ rows.req \in 1..httpCount
    /\ rows.ver \in 0..sheet
    /\ rows.at <= now

\* C8: rows that apiManager.getAllData returns or caches, and rows that useSheetData
\* exposes, come from a GET's response; a failed call returns success false with no
\* rows, and useSheetData then holds the empty list and an error message.
C8_NoMockData ==
    /\ lastCall.kind = "getAllData" =>
          LET response == lastCall.result
              hook == fetchDataDone(response)
          IN IF response.success
             THEN FromHttp(response.data) /\ response.data.length > 0 /\ hook.data = response.data
             ELSE response.data = Null /\ hook.data = EmptyList /\ hook.error # EmptyStr
    /\ cache["getAllData"] # Null =>
          cache["getAllData"].data.success /\ FromHttp(cache["getAllData"].data.data)
    /\ clientCache # Null => FromHttp(clientCache.data)

\* C8 witness: a getAllData call has just returned a failure.
C8_Witness == lastCall.kind = "getAllData" /\ ~lastCall.result.success

\* C10 (as claimed): when the GET of a call fails, the call does not return the
\* failure: it stays in progress and the request is sent again.
C10_AutomaticRetry ==
    [][\A c \in Slots :
          (calls[c].pc = "awaitOwn" /\ lastCall'.kind # "none" /\ calls'[c].pc = "idle"
              /\ lastCall'.kind = "getAllData")
          => lastCall'.result.success]_vars

\* ==================================================== useOptimisticUpdate: claims

\* C6 (as claimed): an optimisticUpdate call makes the optimistic function's
\* result the hook's data at once; when its server update fails, data is again
\* what the hook exposed just before that call and error is set; when it
\* succeeds, data is left as it is.  Overlapping calls included.
C6_OptimisticRollback ==
    /\ lastUpdate.outcome = "called" =>
          optimistic.data = optimisticUpdateFn(lastUpdate.before, lastUpdate.u)
    /\ lastUpdate.outcome = "failed" =>
          optimistic.data = lastUpdate.before /\ optimistic.error # EmptyStr
    /\ lastUpdate.outcome = "succeeded" => optimistic.data = lastUpdate.was

\* ============================================================ SheetApi: claims

\* The reply is one with which the live API is unavailable.
Unavailable(reply) == reply.type \in {"fetchThrows", "badJson", "notOk"}

\* C7: every SheetApi operation resolves (it does not reject) to a response with
\* a boolean success and the timestamp of its settlement, and a response whose
\* success is false carries a non-empty error.
C7_StandardizedResponses ==
    apiCall.op # "none" =>
        LET out == apiCall.out IN
        /\ DOMAIN out = {"success", "data", "error", "timestamp"}
        /\ out.success \in BOOLEAN
        /\ out.timestamp = now
        /\ ~out.success => out.error # EmptyStr

\* C7 witness: an updateField whose request failed has resolved to a failure.
C7_Witness ==
    /\ apiCall.op = "updateField"
    /\ ~apiCall.out.success
    /\ apiCall.out.error = <<"Failed to update field">>

\* C9 (as claimed): when the request of sheetApi.getAllData finds the live API
\* unavailable, the call returns sample rows instead of an error.
C9_SampleDataFallback ==
    (apiCall.op = "getAllData" /\ apiCall.sent /\ Unavailable(apiCall.reply)) =>
        /\ apiCall.out.success
        /\ apiCall.out.data # Null

\* C9 (amended): when the request of sheetApi.getAllData finds the live API
\* unavailable, the call returns success false, no rows, and an error that
\* names the failed request; the step in which it settles leaves the
\* SheetClient's cache as it was.
C9_NoSampleFallback ==
    /\ []((apiCall.op = "getAllData" /\ apiCall.sent /\ Unavailable(apiCall.reply)) =>
            /\ ~apiCall.out.success
            /\ apiCall.out.data = Null
            /\ Len(apiCall.out.error) >= 2
            /\ SubSeq(apiCall.out.error, 1, 2) =
                   <<"Google Sheets API Error: ", "API request failed: ">>)
    /\ [][(apiCall'.op = "getAllData" /\ apiCall'.sent /\ Unavailable(apiCall'.reply)) =>
            UNCHANGED clientCache]_vars

\* C9 witness: a getAllData whose fetch threw has resolved.
C9_Witness ==
    apiCall.op = "getAllData" /\ apiCall.sent /\ apiCall.reply.type = "fetchThrows"

\* ================================================== smartTypeConversion: claims

\* The column is a checkbox column: its name contains a boolean column keyword.
CheckboxColumn(columnName) ==
    \E i \in DOMAIN booleanColumnNames :
        includes(toLowerCase(columnName), booleanColumnNames[i])

\* C12 (as claimed): for a column that is not a checkbox column,
\* smartTypeConversion returns the trimmed cell as a string, whatever the cell
\* holds; only cells of checkbox columns become booleans.
C12_BooleanOnlyCheckboxColumns ==
    (fnOut.fn = "smartTypeConversion" /\ ~CheckboxColumn(fnIn.columnName))
        => fnOut.value = Str(trim(fnIn.value))

\* =============================================== transformRawDataToRows: claims

\* C11 (as claimed): in the rows transformRawDataToRows returns, no two distinct
\* rows have the same _id, whether taken from the first column or generated.
C11_UniqueRowId ==
    fnOut.fn = "transformRawDataToRows" =>
        \A i, j \in DOMAIN fnOut.rows :
            i # j => fnOut.rows[i]._id # fnOut.rows[j]._id

\* ========================================================== updateField: claims

\* The letters of the 0-based column i of a sheet (A..Z, then AA..ZZ).
A1Column(i) ==
    IF i < 26 THEN <<UpperChars[i + 1]>>
    ELSE <<UpperChars[i \div 26], UpperChars[(i % 26) + 1]>>

\* C13 (as claimed): the range updateField sends names the column letter of the
\* field's position in config.headers and the sheet row the identified record was
\* read from: getAllData read the header from sheet row 1, so the record at
\* 0-based index i of the rows was read from sheet row i + 2.
C13_UpdateFieldRange ==
    (fnOut.fn = "updateField" /\ ~fnOut.result.threw) =>
        fnOut.result.range =
            A1Column(indexOf(fnIn.headers, fnIn.field)) \o numberToString(fnOut.result.rowIndex + 2)

\* C14 (as claimed): when updateField is called with an oldValue that differs
\* from the value the cell holds in the sheet (from every value it holds from
\* the call until updateField has compared the two), it sends no write and
\* returns success false with the optimistic-lock error.
C14_OptimisticLock ==
    (/\ fnOut.fn = "updateFieldLocked"
     /\ \A v \in fnOut.cellValue..fnOut.checkedValue : v # fnOut.oldValue) =>
        /\ ~fnOut.posted
        /\ ~fnOut.response.success
        /\ fnOut.response.error = <<"Optimistic lock failed: value was changed by another user">>

\* C15: sheetApi.addRow returns success false with an error starting with
\* 'Validation failed', sends no request and leaves the cache as it was, whenever
\* the value of the first configured header is missing or blank or some
\* non-blank value does not match the type of its column.
BlankValue(v) == v = Undefined \/ trim(jsString(v)) = << >>
FailsValidation(data) ==
    \/ BlankValue(dataField(data, ConfigHeaders[1]))
    \/ \E i \in DOMAIN data :
          /\ ~BlankValue(data[i].value)
          /\ ~isValidType(data[i].value, getFieldType(ConfigDataTypes, data[i].field))
C15_ValidationBeforeWrite ==
    (fnOut.fn = "addRow" /\ FailsValidation(fnIn.data)) =>
        /\ ~fnOut.response.success
        /\ startsWith(fnOut.response.error, <<"V", "a", "l", "i", "d", "a", "t", "i", "o", "n", " ", "f", "a", "i", "l", "e", "d">>)
        /\ httpCount = fnOut.requestsBefore
        /\ clientCache = fnOut.cacheBefore
C15_Witness ==
    /\ fnOut.fn = "addRow"
    /\ ~BlankValue(dataField(fnIn.data, ConfigHeaders[1]))
    /\ FailsValidation(fnIn.data)
    /\ fnOut.cacheBefore # Null
    /\ fnOut.response.error = <<"V", "a", "l", "i", "d", "a", "t", "i", "o", "n", " ", "f", "a", "i", "l", "e", "d", ":", " ", "E", "m", "a", "i", "l", " ", "m", "u", "s", "t", " ", "b", "e", " ", "a", " ", "v", "a", "l", "i", "d", " ", "e", "m", "a", "i", "l">>

\* C16: sheetApi.bulkUpdate attempts each change once (one result for each
\* change), successful + failed is the number of changes, errors holds the
\* error of each failed change in the order of the changes, and the response
\* itself has success true even when updates failed.
FailedChanges == {i \in DOMAIN apiCall.results : ~apiCall.results[i].success}
C16_BulkUpdateAccounting ==
    (fnIn.fn = "bulkUpdate" /\ apiCall.op = "bulkUpdate") =>
        /\ apiCall.out.success
        /\ Len(apiCall.results) = Len(fnIn.changes)
        /\ apiCall.out.data.successful + apiCall.out.data.failed = Len(fnIn.changes)
        /\ apiCall.out.data.failed = Cardinality(FailedChanges)
        /\ Len(apiCall.out.data.errors) = apiCall.out.data.failed
        /\ \E f \in [DOMAIN apiCall.out.data.errors -> FailedChanges] :
              /\ \A j, k \in DOMAIN f : j < k => f[j] < f[k]
              /\ \A k \in DOMAIN f :
                    apiCall.out.data.errors[k] =
                        Or(apiCall.results[f[k]].error, <<"Unknown error">>)
C16_Witness ==
    /\ fnIn.fn = "bulkUpdate"
    /\ apiCall.op = "bulkUpdate"
    /\ Len(fnIn.changes) = 2
    /\ apiCall.out.success
    /\ apiCall.out.data.successful = 0
    /\ apiCall.out.data.failed = 2
    /\ apiCall.out.data.errors[1] # apiCall.out.data.errors[2]

\* C17 (as claimed): for a sheet that is reachable and authorised but has no
\* data rows, the quick connection status reports connected, while the data
\* load reports 'No data found'.
NoDataRows == fnIn.reply.type = "body" /\ fnIn.reply.success /\ fnIn.reply.values # "rows"
NoDataFound(error) ==
    \E i \in DOMAIN error :
        error[i] \in {"No data found in the sheet. Please ensure your Google Sheet contains data and check your configuration.",
                      "No data found in the specified sheet. Please check your sheet ID and ensure the sheet contains data."}
C17_EmptySheet ==
    (fnIn.fn = "sheet" /\ NoDataRows) =>
        /\ lastCall.kind = "quickTest" => lastCall.result.connected
        /\ lastCall.kind = "getAllData" =>
              (~lastCall.result.success /\ NoDataFound(lastCall.result.error))

\* C18 (as claimed): sheetApi.search returns, in their original order, exactly
\* the rows of getAllData whose field satisfies the operator against the value:
\* equals is equality, contains and startsWith compare the lower-cased string
\* forms, greaterThan and lessThan compare as numbers, no operator is contains.
Satisfies(row, query) ==
    LET fieldValue == rowField(row, query.field)
        fieldString == toLowerCase(jsString(fieldValue))
        searchString == toLowerCase(jsString(query.value))
        less(a, b) == ~a.nan /\ ~b.nan /\ a.n < b.n
    IN CASE query.operator = "equals" -> fieldValue = query.value
         [] query.operator = "startsWith" -> startsWith(fieldString, searchString)
         [] query.operator = "greaterThan" -> less(jsNumber(query.value), jsNumber(fieldValue))
         [] query.operator = "lessThan" -> less(jsNumber(fieldValue), jsNumber(query.value))
         [] OTHER -> includes(fieldString, searchString)
C18_SearchSemantics ==
    fnOut.fn = "search" =>
        LET satisfies(row) == Satisfies(row, fnIn.query) IN
        fnOut.rows = SelectSeq(fnOut.allData, satisfies)

\* C19: runFullTest runs the five tests (configuration, API reachability,
\* authentication, sheet access, data retrieval) in that order whatever the
\* earlier ones found; its result has summary.totalTests = 5, passed + failed
\* = 5, and success true exactly when all five tests succeeded.
FiveTests == <<"configValidation", "apiReachability", "authentication", "sheetAccess", "dataRetrieval">>
C19_FullDiagnostics ==
    fnOut.fn = "runFullTest" =>
        /\ Len(fnOut.ran) <= 5 /\ fnOut.ran = SubSeq(FiveTests, 1, Len(fnOut.ran))
        /\ fnOut.done =>
              /\ fnOut.ran = FiveTests
              /\ fnOut.result.summary.totalTests = 5
              /\ fnOut.result.summary.passed + fnOut.result.summary.failed = 5
              /\ fnOut.result.success <=> \A i \in DOMAIN fnOut.tests : fnOut.tests[i].success
C19_Witness ==
    /\ fnOut.fn = "runFullTest"
    /\ fnOut.done
    /\ ~fnOut.tests[1].success
    /\ ~fnOut.tests[2].success
    /\ fnOut.tests[5].success
    /\ fnOut.result.summary.passed = 3
    /\ ~fnOut.result.success

\* C20 (as claimed): apiManager.getAllData caches a response only when its
\* success is true, never serves a failed response from the cache, and once a
\* getAllData has returned a failed response the cache holds nothing a later
\* getAllData could be answered with, so that call reaches sheetApi.getAllData.
Servable(k) == cache[k] # Null /\ ~isExpired(cache[k], customTtlOf(k), now)
C20_FailuresNotCached ==
    /\ cache["getAllData"] # Null => cache["getAllData"].data.success
    /\ (lastCall.kind = "getAllData" /\ lastCall.cachedAt # -1) => lastCall.result.success
    /\ (lastCall.kind = "getAllData" /\ lastCall.cachedAt = -1 /\ ~lastCall.result.success)
          => ~Servable("getAllData")

\* C21 (as claimed): the rows apiManager.getAllData() returns were read from
\* the HTTP API no more than 30 000 ms before the call returned, and the
\* connection status quickConnectionTest() computes reflects an HTTP read no
\* more than 10 000 ms old, with both caches taken together.  (A status not
\* taken from ApiManager's cache reflects the rows SheetClient holds.)
C21_EndToEndFreshness ==
    /\ (lastCall.kind = "getAllData" /\ lastCall.result # Null /\ lastCall.result.success)
          => now - lastCall.result.data.at <= DEFAULT_TTL
    /\ (/\ lastCall.kind = "quickTest" /\ lastCall.cachedAt = -1
        /\ lastCall.result # Null /\ lastCall.result.connected
        /\ clientCache # Null)
          => now - clientCache.data.at <= QUICK_TTL
====
